---- MODULE Spec2Model ----
(***************************************************************************)
(* Page objects of the SauceDemo suite (BasePage and the per-screen        *)
(* objects) driving one browser page of the application under test.        *)
(*                                                                         *)
(* app     the live page: displayed screen, session, cart, form fields,    *)
(*         error banner.  All "current state" lives here; the page objects *)
(*         hold none.                                                      *)
(* result  what the last page-object operation returned or threw, with the *)
(*         engine calls it issued.                                         *)
(* pc      position of an operation that is suspended between two awaits.  *)
(* peer    the page of a second test running at the same time, and whether *)
(*         that test issued the last operation.                            *)
(* data    the objects the fixture modules export (products, users,        *)
(*         checkout data), as they are now.                                *)
(***************************************************************************)
EXTENDS Integers, Sequences, FiniteSets, TLC

VARIABLES app, result, pc, peer, data

vars == <<app, result, pc, peer, data>>

\* pc of a test that is between two operations.
Idle == [at |-> "idle"]

\* peer after an operation of this test.
Own(p) == [p EXCEPT !.acted = FALSE]

\* result of operation op called with arg, from the outcome out of its body.
Result(op, arg, out) ==
  [op |-> op, arg |-> arg, status |-> out.status, err |-> out.err,
   value |-> out.value, calls |-> out.calls]

(***************************************************************************)
(* Strings.  A string is a sequence of tokens; a token is a literal piece  *)
(* of text or the decimal rendering of a number.  The empty string is      *)
(* <<>>.  Amounts of money are rendered from whole cents.                  *)
(***************************************************************************)
\* LET x == e IN F(x), with e evaluated once however often F uses x.
With(e, F(_)) == CHOOSE y \in {F(x) : x \in {e}} : TRUE

Lit(s) == [s |-> s, n |-> 0]
Digits(n) == [s |-> "#", n |-> n]
WS == Lit(" ")
Str(s) == <<Lit(s)>>
NumStr(n) == <<Digits(n)>>

RECURSIVE TrimStart(_)
TrimStart(t) == IF t # <<>> /\ Head(t) = WS THEN TrimStart(Tail(t)) ELSE t

RECURSIVE TrimEnd(_)
TrimEnd(t) ==
  IF t # <<>> /\ t[Len(t)] = WS THEN TrimEnd(SubSeq(t, 1, Len(t) - 1)) ELSE t

\* String.prototype.trim
Trim(t) == With(t, LAMBDA u : With(TrimStart(u), LAMBDA v : TrimEnd(v)))

\* String.prototype.replace(piece, ''): the first occurrence only
RECURSIVE Replace(_, _)
Replace(t, piece) ==
  IF t = <<>> THEN <<>>
  ELSE IF Head(t) = piece THEN Tail(t)
  ELSE <<Head(t)>> \o Replace(Tail(t), piece)

\* parseFloat / parseInt(_, 10): leading white space is skipped, then a number
\* must follow; anything else is NaN.
NaN == [nan |-> TRUE, n |-> 0]
Number(n) == [nan |-> FALSE, n |-> n]
ParseNumber(t) ==
  With(t, LAMBDA v : With(TrimStart(v), LAMBDA u :
    IF u # <<>> /\ Head(u).s = "#" THEN Number(Head(u).n) ELSE NaN))

Includes(seq, x) == \E i \in 1..Len(seq) : seq[i] = x

(***************************************************************************)
(* Fixture data and constants.                                             *)
(***************************************************************************)
ERROR_MESSAGES ==
  [loginRequired      |-> Str("Epic sadface: Username is required"),
   passwordRequired   |-> Str("Epic sadface: Password is required"),
   invalidCredentials |-> Str("Epic sadface: Username and password do not match any user in this service"),
   lockedOut          |-> Str("Epic sadface: Sorry, this user has been locked out."),
   firstNameRequired  |-> Str("Error: First Name is required"),
   lastNameRequired   |-> Str("Error: Last Name is required"),
   postalCodeRequired |-> Str("Error: Postal Code is required")]

User(u, p) == [username |-> u, password |-> p]

validUsers ==
  [standard    |-> User(Str("standard_user"), Str("secret_sauce")),
   performance |-> User(Str("performance_glitch_user"), Str("secret_sauce")),
   problem     |-> User(Str("problem_user"), Str("secret_sauce")),
   visual      |-> User(Str("visual_user"), Str("secret_sauce"))]

invalidUsers ==
  [locked        |-> User(Str("locked_out_user"), Str("secret_sauce")),
   invalid       |-> User(Str("invalid_user"), Str("invalid_password")),
   emptyUsername |-> User(<<>>, Str("secret_sauce")),
   emptyPassword |-> User(Str("standard_user"), <<>>),
   emptyBoth     |-> User(<<>>, <<>>)]

ValidUserSet == {validUsers[k] : k \in DOMAIN validUsers}
InvalidUserSet == {invalidUsers[k] : k \in DOMAIN invalidUsers}
testUsers == ValidUserSet \cup InvalidUserSet

Info(f, l, z) == [firstName |-> f, lastName |-> l, postalCode |-> z]

validCheckoutInfo == Info(Str("John"), Str("Doe"), Str("12345"))

invalidCheckoutInfo ==
  [missingFirstName  |-> Info(<<>>, Str("Doe"), Str("12345")),
   missingLastName   |-> Info(Str("John"), <<>>, Str("12345")),
   missingPostalCode |-> Info(Str("John"), Str("Doe"), <<>>),
   allFieldsEmpty    |-> Info(<<>>, <<>>, <<>>),
   onlyFirstName     |-> Info(Str("John"), <<>>, <<>>),
   onlyLastName      |-> Info(<<>>, Str("Doe"), <<>>),
   onlyPostalCode    |-> Info(<<>>, <<>>, Str("12345"))]

CheckoutInfos ==
  {validCheckoutInfo} \cup {invalidCheckoutInfo[k] : k \in DOMAIN invalidCheckoutInfo}

Product(name, cents) == [name |-> Str(name), price |-> cents]

\* products.ts, prices in cents
allProducts ==
  << Product("Sauce Labs Backpack", 2999),
     Product("Sauce Labs Bike Light", 999),
     Product("Sauce Labs Bolt T-Shirt", 1599),
     Product("Sauce Labs Fleece Jacket", 4999),
     Product("Sauce Labs Onesie", 799),
     Product("Test.allTheThings() T-Shirt (Red)", 1599) >>

\* Number of catalog products the modelled store lists.
NumProducts == 2

Listed == SubSeq(allProducts, 1, NumProducts)
ListedNames == {Listed[i].name : i \in 1..Len(Listed)}
PriceOf(name) ==
  allProducts[CHOOSE i \in 1..Len(allProducts) : allProducts[i].name = name].price

\* products.ts: the reference orderings of the product names
productNamesAZ ==
  << Str("Sauce Labs Backpack"), Str("Sauce Labs Bike Light"),
     Str("Sauce Labs Bolt T-Shirt"), Str("Sauce Labs Fleece Jacket"),
     Str("Sauce Labs Onesie"), Str("Test.allTheThings() T-Shirt (Red)") >>

RECURSIVE Reverse(_)
Reverse(seq) == IF seq = <<>> THEN <<>> ELSE Reverse(Tail(seq)) \o <<Head(seq)>>

productNamesZA == Reverse(productNamesAZ)

\* products.ts: the reference orderings of the prices, in cents
pricesLowToHigh == << 799, 999, 1599, 1599, 2999, 4999 >>
pricesHighToLow == Reverse(pricesLowToHigh)

sortOptions == [nameAZ |-> "az", nameZA |-> "za", priceLowHigh |-> "lohi", priceHighLow |-> "hilo"]
SortOption == {sortOptions[k] : k \in DOMAIN sortOptions}

URLS ==
  [base             |-> "https://www.saucedemo.com",
   login            |-> "https://www.saucedemo.com/",
   inventory        |-> "https://www.saucedemo.com/inventory.html",
   cart             |-> "https://www.saucedemo.com/cart.html",
   checkoutStepOne  |-> "https://www.saucedemo.com/checkout-step-one.html",
   checkoutStepTwo  |-> "https://www.saucedemo.com/checkout-step-two.html",
   checkoutComplete |-> "https://www.saucedemo.com/checkout-complete.html"]

(***************************************************************************)
(* The application under test, as the tests and constants of the suite     *)
(* state its contract.                                                     *)
(***************************************************************************)
\* The UTF-16 code units of the catalog names, which the store's sort by
\* name compares.
CodeUnits(name) ==
  CASE name = Str("Sauce Labs Backpack") ->
         <<83, 97, 117, 99, 101, 32, 76, 97, 98, 115, 32, 66, 97, 99, 107, 112, 97, 99, 107>>
    [] name = Str("Sauce Labs Bike Light") ->
         <<83, 97, 117, 99, 101, 32, 76, 97, 98, 115, 32, 66, 105, 107, 101, 32, 76, 105, 103,
           104, 116>>
    [] name = Str("Sauce Labs Bolt T-Shirt") ->
         <<83, 97, 117, 99, 101, 32, 76, 97, 98, 115, 32, 66, 111, 108, 116, 32, 84, 45, 83,
           104, 105, 114, 116>>
    [] name = Str("Sauce Labs Fleece Jacket") ->
         <<83, 97, 117, 99, 101, 32, 76, 97, 98, 115, 32, 70, 108, 101, 101, 99, 101, 32, 74,
           97, 99, 107, 101, 116>>
    [] name = Str("Sauce Labs Onesie") ->
         <<83, 97, 117, 99, 101, 32, 76, 97, 98, 115, 32, 79, 110, 101, 115, 105, 101>>
    [] OTHER ->
         <<84, 101, 115, 116, 46, 97, 108, 108, 84, 104, 101, 84, 104, 105, 110, 103, 115, 40,
           41, 32, 84, 45, 83, 104, 105, 114, 116, 32, 40, 82, 101, 100, 41>>

\* s sorts before t, code unit by code unit; a proper prefix sorts first.
RECURSIVE LexLess(_, _)
LexLess(s, t) ==
  IF t = <<>> THEN FALSE
  ELSE IF s = <<>> THEN TRUE
  ELSE IF Head(s) # Head(t) THEN Head(s) < Head(t)
  ELSE LexLess(Tail(s), Tail(t))

\* x is displayed before y under the sort option.
Before(option, x, y) ==
  CASE option = "az" -> LexLess(CodeUnits(x), CodeUnits(y))
    [] option = "za" -> LexLess(CodeUnits(y), CodeUnits(x))
    [] option = "lohi" -> PriceOf(x) < PriceOf(y)
    [] OTHER -> PriceOf(x) > PriceOf(y)

\* The store sorts the listing it displays; the sort is stable: x goes
\* behind every name that is not displayed after it.
RECURSIVE InsertSorted(_, _, _)
InsertSorted(option, x, seq) ==
  IF seq = <<>> THEN <<x>>
  ELSE IF Before(option, x, Head(seq)) THEN <<x>> \o seq
  ELSE <<Head(seq)>> \o InsertSorted(option, x, Tail(seq))

RECURSIVE AppSort(_, _)
AppSort(option, names) ==
  IF names = <<>> THEN <<>>
  ELSE With(AppSort(option, SubSeq(names, 1, Len(names) - 1)), LAMBDA sorted :
         InsertSorted(option, names[Len(names)], sorted))

\* The listing of a freshly loaded inventory: the catalogue in its order.
Catalog == [i \in 1..Len(Listed) |-> Listed[i].name]

CatalogIndex(name) == CHOOSE i \in 1..Len(allProducts) : allProducts[i].name = name

Screens == {"blank", "login", "inventory", "detail", "cart", "step1", "step2", "complete"}

\* A fresh browser page: nothing loaded, nobody logged in, empty cart.
FreshPage ==
  [screen |-> "blank", loggedIn |-> FALSE, cart |-> <<>>,
   username |-> <<>>, password |-> <<>>,
   firstName |-> <<>>, lastName |-> <<>>, postalCode |-> <<>>,
   error |-> <<>>, detail |-> 0, menu |-> FALSE, listing |-> Catalog, skew |-> 0,
   pending |-> {}]

\* A page load: form contents, the error banner, the open menu and the
\* chosen sort order do not survive it.
Show(a, screen) ==
  [a EXCEPT !.screen = screen, !.username = <<>>, !.password = <<>>,
            !.firstName = <<>>, !.lastName = <<>>, !.postalCode = <<>>,
            !.error = <<>>, !.detail = 0, !.menu = FALSE, !.listing = Catalog]

\* The screen a URL of the application serves.
ScreenAt(url) ==
  CASE url = URLS.inventory -> "inventory"
    [] url = URLS.cart -> "cart"
    [] url = URLS.checkoutStepOne -> "step1"
    [] url = URLS.checkoutStepTwo -> "step2"
    [] url = URLS.checkoutComplete -> "complete"
    [] OTHER -> "login"

\* Protected URLs are served to a logged-in session only; any other
\* session is sent to the login screen.
AppGoto(a, url) ==
  IF a.loggedIn THEN Show(a, ScreenAt(url)) ELSE Show(a, "login")

\* The login form's answer to a click on the login button.
AppLoginSubmit(a) ==
  IF a.username = <<>> THEN [a EXCEPT !.error = ERROR_MESSAGES.loginRequired]
  ELSE IF a.password = <<>> THEN [a EXCEPT !.error = ERROR_MESSAGES.passwordRequired]
  ELSE IF User(a.username, a.password) = invalidUsers.locked
    THEN [a EXCEPT !.error = ERROR_MESSAGES.lockedOut]
  ELSE IF User(a.username, a.password) \in ValidUserSet
    THEN [Show(a, "inventory") EXCEPT !.loggedIn = TRUE]
  ELSE [a EXCEPT !.error = ERROR_MESSAGES.invalidCredentials]

\* The information form's answer to a click on Continue.
AppContinue(a) ==
  IF a.firstName = <<>> THEN [a EXCEPT !.error = ERROR_MESSAGES.firstNameRequired]
  ELSE IF a.lastName = <<>> THEN [a EXCEPT !.error = ERROR_MESSAGES.lastNameRequired]
  ELSE IF a.postalCode = <<>> THEN [a EXCEPT !.error = ERROR_MESSAGES.postalCodeRequired]
  ELSE Show(a, "step2")

Without(seq, x) == SelectSeq(seq, LAMBDA y : y # x)

RECURSIVE SumPrices(_)
SumPrices(names) ==
  IF names = <<>> THEN 0 ELSE PriceOf(Head(names)) + SumPrices(Tail(names))

\* Order summary of step two, in cents.
TaxRatePercent == 8
AppSubtotal(a) == SumPrices(a.cart)
AppTax(a) == (AppSubtotal(a) * TaxRatePercent + 50) \div 100
\* skew: the cents by which the total the store displays is off; 0 for the
\* store as the tests know it.
AppTotal(a) == AppSubtotal(a) + AppTax(a) + a.skew

(***************************************************************************)
(* The DOM of the displayed screen: the elements the page objects'         *)
(* selectors can match, in document order.  item is 0 for an element of    *)
(* the page itself and i for an element inside the i-th product or cart    *)
(* line.  Text nodes carry the markup's surrounding white space.           *)
(***************************************************************************)
El(sel, item, text) == [sel |-> sel, item |-> item, text |-> text]
Markup(t) == <<WS>> \o t \o <<WS>>

\* The names of the product or cart lines the screen lists.
Items(a) ==
  CASE a.screen = "inventory" -> a.listing
    [] a.screen \in {"cart", "step2"} -> a.cart
    [] OTHER -> <<>>

\* The header of the confirmation screen.
CompleteHeaderText == <<Lit("Thank you"), Lit(" for your order!")>>

PriceText(cents) == <<Lit("$"), Digits(cents)>>

ItemEls(a, i) ==
  With(Items(a)[i], LAMBDA name :
    << El(IF a.screen = "inventory" THEN ".inventory_item" ELSE ".cart_item", i, <<>>),
       El(".inventory_item_name", i, Markup(name)),
       El(".inventory_item_price", i, Markup(PriceText(PriceOf(name)))) >>
    \o (CASE a.screen = "inventory" ->
              << El("img", i, <<>>),
                 IF Includes(a.cart, name)
                   THEN El("button[id^=\"remove\"]", i, Str("Remove"))
                   ELSE El("button[id^=\"add-to-cart\"]", i, Str("Add to cart")) >>
          [] a.screen = "cart" ->
              << El(".cart_quantity", i, NumStr(1)),
                 El("button[id^=\"remove\"]", i, Str("Remove")) >>
          [] OTHER -> << El(".cart_quantity", i, NumStr(1)) >>))

RECURSIVE ItemElsFrom(_, _)
ItemElsFrom(a, i) ==
  IF i > Len(Items(a)) THEN <<>> ELSE ItemEls(a, i) \o ItemElsFrom(a, i + 1)

ErrorEls(a) ==
  IF a.error = <<>> THEN <<>>
  ELSE << El("[data-test=\"error\"]", 0, Markup(a.error)), El(".error-button", 0, <<>>) >>

\* The side menu: its links are displayed while it is open.
MenuEls(a) ==
  << El("#react-burger-menu-btn", 0, <<>>) >> \o
  (IF a.menu
     THEN << El("#inventory_sidebar_link", 0, <<>>), El("#about_sidebar_link", 0, <<>>),
             El("#logout_sidebar_link", 0, <<>>), El("#reset_sidebar_link", 0, <<>>),
             El("#react-burger-cross-btn", 0, <<>>) >>
     ELSE <<>>)

HeaderEls(a) ==
  MenuEls(a) \o << El(".shopping_cart_link", 0, <<>>) >> \o
  (IF a.cart = <<>> THEN <<>>
   ELSE << El(".shopping_cart_badge", 0, Markup(NumStr(Len(a.cart)))) >>)

Title(text) == El(".title", 0, Markup(Str(text)))

\* The elements of a screen in document order: the header, the elements
\* above the item lines or the error banner, those, and the elements below.
TopEls(a) ==
  CASE a.screen = "login" ->
         << El(".login_logo", 0, <<>>), El("#user-name", 0, <<>>),
            El("#password", 0, <<>>), El("#login-button", 0, <<>>) >>
    [] a.screen = "inventory" ->
         << Title("Products"), El(".product_sort_container", 0, <<>>),
            El(".inventory_list", 0, <<>>) >>
    [] a.screen = "detail" ->
         << El("#back-to-products", 0, Str("Back to products")),
            El(".inventory_details_name", 0, Markup(Listed[a.detail].name)),
            El(".inventory_details_price", 0, Markup(PriceText(Listed[a.detail].price))),
            IF Includes(a.cart, Listed[a.detail].name)
              THEN El("button[id^=\"remove\"]", 0, Str("Remove"))
              ELSE El("button[id^=\"add-to-cart\"]", 0, Str("Add to cart")) >>
    [] a.screen = "cart" -> << Title("Your Cart") >>
    [] a.screen = "step1" ->
         << Title("Checkout: Your Information"), El("#first-name", 0, <<>>),
            El("#last-name", 0, <<>>), El("#postal-code", 0, <<>>) >>
    [] a.screen = "step2" -> << Title("Checkout: Overview") >>
    [] a.screen = "complete" ->
         << El(".title", 0, <<>>),
            El(".complete-header", 0, CompleteHeaderText),
            El(".complete-text", 0,
               Str("Your order has been dispatched, and will arrive just as fast as the pony can get there!")),
            El("#back-to-products", 0, Str("Back Home")) >>
    [] OTHER -> <<>>

MiddleEls(a) ==
  IF a.screen \in {"inventory", "cart", "step2"} THEN ItemElsFrom(a, 1)
  ELSE IF a.screen \in {"login", "step1"} THEN ErrorEls(a)
  ELSE <<>>

BottomEls(a) ==
  CASE a.screen = "cart" ->
         << El("#continue-shopping", 0, <<>>), El("#checkout", 0, <<>>) >>
    [] a.screen = "step1" -> << El("#cancel", 0, <<>>), El("#continue", 0, <<>>) >>
    [] a.screen = "step2" ->
         << El(".summary_subtotal_label", 0,
               Markup(<<Lit("Item total: ")>> \o PriceText(AppSubtotal(a)))),
            El(".summary_tax_label", 0, Markup(<<Lit("Tax: ")>> \o PriceText(AppTax(a)))),
            El(".summary_total_label", 0, Markup(<<Lit("Total: ")>> \o PriceText(AppTotal(a)))),
            El("#cancel", 0, <<>>), El("#finish", 0, <<>>) >>
    [] OTHER -> <<>>

Elements(a) ==
  (IF a.screen \in {"blank", "login"} THEN <<>> ELSE HeaderEls(a))
  \o TopEls(a) \o MiddleEls(a) \o BottomEls(a)

\* What the application does when the element e of the displayed screen is clicked.
AppClick(a, e) ==
  CASE e.sel = ".shopping_cart_link" -> Show(a, "cart")
    [] e.sel = "#login-button" -> AppLoginSubmit(a)
    [] e.sel = ".error-button" -> [a EXCEPT !.error = <<>>]
    [] e.sel = "button[id^=\"add-to-cart\"]" ->
         [a EXCEPT !.cart =
            Append(@, IF a.screen = "detail" THEN Listed[a.detail].name ELSE Items(a)[e.item])]
    [] e.sel = "button[id^=\"remove\"]" ->
         [a EXCEPT !.cart =
            Without(@, IF a.screen = "detail" THEN Listed[a.detail].name ELSE Items(a)[e.item])]
    [] e.sel \in {".inventory_item_name", "img"} /\ a.screen = "inventory" ->
         [Show(a, "detail") EXCEPT !.detail = CatalogIndex(Items(a)[e.item])]
    [] e.sel = "#back-to-products" -> Show(a, "inventory")
    [] e.sel = "#continue-shopping" -> Show(a, "inventory")
    [] e.sel = "#checkout" -> Show(a, "step1")
    [] e.sel = "#continue" -> AppContinue(a)
    [] e.sel = "#cancel" -> Show(a, IF a.screen = "step1" THEN "cart" ELSE "inventory")
    [] e.sel = "#finish" -> [Show(a, "complete") EXCEPT !.cart = <<>>]
    [] e.sel = "#react-burger-menu-btn" -> [a EXCEPT !.menu = TRUE]
    [] e.sel = "#react-burger-cross-btn" -> [a EXCEPT !.menu = FALSE]
    [] e.sel = "#inventory_sidebar_link" -> Show(a, "inventory")
    [] e.sel = "#logout_sidebar_link" -> [Show(a, "login") EXCEPT !.loggedIn = FALSE]
    [] e.sel = "#reset_sidebar_link" -> [a EXCEPT !.cart = <<>>]
    [] OTHER -> a

\* What the application does when text is typed into the input e.
AppFill(a, e, text) ==
  CASE e.sel = "#user-name" -> [a EXCEPT !.username = text]
    [] e.sel = "#password" -> [a EXCEPT !.password = text]
    [] e.sel = "#first-name" -> [a EXCEPT !.firstName = text]
    [] e.sel = "#last-name" -> [a EXCEPT !.lastName = text]
    [] e.sel = "#postal-code" -> [a EXCEPT !.postalCode = text]
    [] OTHER -> a

\* What the application does when an option of the sort dropdown is selected.
AppSelect(a, e, value) ==
  IF e.sel = ".product_sort_container" THEN [a EXCEPT !.listing = AppSort(value, @)] ELSE a

InputSelectors == {"#user-name", "#password", "#first-name", "#last-name", "#postal-code"}

(***************************************************************************)
(* The browser-automation engine: what a locator call answers on the       *)
(* current DOM.  ok = FALSE is a raised error (time-out waiting for the    *)
(* element, more than one match of a strict locator, a selector that does  *)
(* not parse).                                                             *)
(***************************************************************************)
Loc(sel) == [sel |-> sel, item |-> 0]
In(i, sel) == [sel |-> sel, item |-> i]

MalformedSelector == "div[["
Malformed(sel) == sel = MalformedSelector

Matching(a, loc) ==
  SelectSeq(Elements(a), LAMBDA e : e.sel = loc.sel /\ (loc.item = 0 \/ e.item = loc.item))

\* A call resolves with a value, or rejects with the engine's error.
R(ok, a, value) ==
  [ok |-> ok, app |-> a, value |-> value, err |-> IF ok THEN "none" ELSE "engine"]

\* An expect(...) whose condition does not come to hold within its time-out.
AssertionFailed(a) == [ok |-> FALSE, app |-> a, value |-> <<>>, err |-> "assertion"]

One(loc, found) == ~Malformed(loc.sel) /\ Len(found) = 1

LocatorClick(a, loc) ==
  With(Matching(a, loc), LAMBDA found :
    IF One(loc, found) THEN R(TRUE, AppClick(a, found[1]), <<>>) ELSE R(FALSE, a, <<>>))

LocatorFill(a, loc, text) ==
  With(Matching(a, loc), LAMBDA found :
    IF One(loc, found) /\ loc.sel \in InputSelectors
      THEN R(TRUE, AppFill(a, found[1], text), <<>>)
      ELSE R(FALSE, a, <<>>))

LocatorTextContent(a, loc) ==
  With(Matching(a, loc), LAMBDA found :
    IF One(loc, found) THEN R(TRUE, a, found[1].text) ELSE R(FALSE, a, <<>>))

\* isVisible does not wait: no match answers false.
LocatorIsVisible(a, loc) ==
  With(Matching(a, loc), LAMBDA found :
    IF Malformed(loc.sel) \/ Len(found) > 1 THEN R(FALSE, a, FALSE)
    ELSE R(TRUE, a, Len(found) = 1))

\* isEnabled / isDisabled wait for the element; every element of the
\* application is enabled.
LocatorIsEnabled(a, loc) ==
  IF One(loc, Matching(a, loc)) THEN R(TRUE, a, TRUE) ELSE R(FALSE, a, FALSE)
LocatorIsDisabled(a, loc) ==
  IF One(loc, Matching(a, loc)) THEN R(TRUE, a, FALSE) ELSE R(FALSE, a, FALSE)

\* isChecked raises unless the element is a checkbox or radio button; the
\* application has none.
LocatorIsChecked(a, loc) == R(FALSE, a, FALSE)

LocatorCount(a, loc) ==
  IF Malformed(loc.sel) THEN R(FALSE, a, 0) ELSE R(TRUE, a, Len(Matching(a, loc)))

\* selectOption waits for a <select> that has the option.
LocatorSelectOption(a, loc, value) ==
  With(Matching(a, loc), LAMBDA found :
    IF One(loc, found) /\ loc.sel = ".product_sort_container" /\ value \in SortOption
      THEN R(TRUE, AppSelect(a, found[1], value), <<>>)
      ELSE R(FALSE, a, <<>>))

\* waitFor({state}): resolves once the element is displayed (visible) or is
\* not displayed (hidden); the page does not change while it waits.
LocatorWaitFor(a, loc, state) ==
  With(Matching(a, loc), LAMBDA found :
    IF Malformed(loc.sel) \/ Len(found) > 1 THEN R(FALSE, a, <<>>)
    ELSE R((Len(found) = 1) = (state = "visible"), a, <<>>))

\* The URL the browser shows for a screen contains the part.
UrlContains(screen, part) ==
  CASE part = "inventory" -> screen \in {"inventory", "detail"}
    [] part = "cart" -> screen = "cart"
    [] part = "checkout-step-one" -> screen = "step1"
    [] part = "checkout-step-two" -> screen = "step2"
    [] part = "checkout-complete" -> screen = "complete"
    [] OTHER -> FALSE

\* t occurs in text, piece for piece.
Contains(text, t) ==
  \E i \in 0..(Len(text) - Len(t)) : SubSeq(text, i + 1, i + Len(t)) = t

\* expect(locator).toBeVisible / toBeHidden / toContainText / toHaveText /
\* toHaveCount and expect(page).toHaveURL: retried until the time-out.
ExpectVisible(a, loc) ==
  IF One(loc, Matching(a, loc)) THEN R(TRUE, a, <<>>) ELSE AssertionFailed(a)

ExpectHidden(a, loc) ==
  IF ~Malformed(loc.sel) /\ Len(Matching(a, loc)) = 0 THEN R(TRUE, a, <<>>)
  ELSE AssertionFailed(a)

ExpectContainText(a, loc, text) ==
  With(Matching(a, loc), LAMBDA found :
    IF One(loc, found) /\ Contains(Trim(found[1].text), text) THEN R(TRUE, a, <<>>)
    ELSE AssertionFailed(a))

ExpectHaveText(a, loc, text) ==
  With(Matching(a, loc), LAMBDA found :
    IF One(loc, found) /\ Trim(found[1].text) = text THEN R(TRUE, a, <<>>)
    ELSE AssertionFailed(a))

ExpectCount(a, loc, count) ==
  IF ~Malformed(loc.sel) /\ Len(Matching(a, loc)) = count THEN R(TRUE, a, <<>>)
  ELSE AssertionFailed(a)

ExpectUrl(a, part) ==
  IF UrlContains(a.screen, part) THEN R(TRUE, a, <<>>) ELSE AssertionFailed(a)

PageGoto(a, url) == R(TRUE, AppGoto(a, url), <<>>)

\* A reload shows the same URL again; the session and the cart survive it.
PageReload(a) ==
  R(TRUE, IF a.screen = "blank" THEN a
          ELSE [Show(a, a.screen) EXCEPT !.detail = a.detail], <<>>)

(***************************************************************************)
(* Outcome of a page-object operation: the page afterwards, whether it     *)
(* returned ("ok") or threw ("error"), what it returned, and the engine    *)
(* calls it issued, in order.                                              *)
(***************************************************************************)
Call(call, sel, item, ok) == [call |-> call, sel |-> sel, item |-> item, ok |-> ok]

Out(a, status, err, value, calls) ==
  [app |-> a, status |-> status, err |-> err, value |-> value, calls |-> calls]

Returned(a, value, calls) == Out(a, "ok", "none", value, calls)
Threw(a, err, calls) == Out(a, "error", err, <<>>, calls)

\* One awaited engine call of a void operation.
Step(call, sel, text) == [call |-> call, sel |-> sel, text |-> text]

\* The same call when the engine's time-out expires on it.
TimedOut(step) ==
  [call |-> step.call, sel |-> step.sel, text |-> step.text, timeout |-> TRUE]

ExpectCalls ==
  {"toBeVisible", "toBeHidden", "toContainText", "toHaveText", "toHaveCount", "toHaveURL"}

Engine(a, step) ==
  IF "timeout" \in DOMAIN step
    THEN IF step.call \in ExpectCalls THEN AssertionFailed(a) ELSE R(FALSE, a, <<>>)
  ELSE
  CASE step.call = "click" -> LocatorClick(a, Loc(step.sel))
    [] step.call = "fill" -> LocatorFill(a, Loc(step.sel), step.text)
    [] step.call = "selectOption" -> LocatorSelectOption(a, Loc(step.sel), step.text)
    [] step.call = "waitFor" -> LocatorWaitFor(a, Loc(step.sel), step.text)
    [] step.call = "toBeVisible" -> ExpectVisible(a, Loc(step.sel))
    [] step.call = "toBeHidden" -> ExpectHidden(a, Loc(step.sel))
    [] step.call = "toContainText" -> ExpectContainText(a, Loc(step.sel), step.text)
    [] step.call = "toHaveText" -> ExpectHaveText(a, Loc(step.sel), step.text)
    [] step.call = "toHaveCount" -> ExpectCount(a, Loc(step.sel), step.text)
    [] step.call = "toHaveURL" -> ExpectUrl(a, step.sel)
    [] step.call = "goto" -> PageGoto(a, step.sel)
    [] step.call = "reload" -> PageReload(a)
    [] OTHER -> R(TRUE, a, <<>>)

\* Mutant: a call that raises is caught and the remaining calls are issued.
RECURSIVE C12_Mut_RunSteps(_, _)
C12_Mut_RunSteps(a, steps) ==
  IF steps = <<>> THEN Returned(a, <<>>, <<>>)
  ELSE LET s == Head(steps)
       IN With(Engine(a, s), LAMBDA r :
            [C12_Mut_RunSteps(r.app, Tail(steps))
               EXCEPT !.calls = << Call(s.call, s.sel, 0, r.ok) >> \o @])

\* await s1; await s2; ...: each call is issued when the one before it has
\* completed; the first one that raises ends the operation.
RECURSIVE RunSteps(_, _)
RunSteps(a, steps) ==
  IF steps = <<>> THEN Returned(a, <<>>, <<>>)
  ELSE LET s == Head(steps)
       IN With(Engine(a, s), LAMBDA r :
            IF ~r.ok THEN Threw(a, r.err, << Call(s.call, s.sel, 0, FALSE) >>)
            ELSE [RunSteps(r.app, Tail(steps))
                    EXCEPT !.calls = << Call(s.call, s.sel, 0, TRUE) >> \o @])

(***************************************************************************)
(* BasePage                                                                *)
(***************************************************************************)
goto(url) == << Step("goto", url, <<>>) >>
reload == << Step("reload", "", <<>>) >>
waitForPageLoad == << Step("waitForLoadState", "load", <<>>) >>
clickElement(sel) == << Step("click", sel, <<>>) >>
fillInput(sel, text) == << Step("fill", sel, text) >>
selectDropdown(sel, value) == << Step("selectOption", sel, value) >>
waitForElementToBeVisible(sel) == << Step("waitFor", sel, "visible") >>
waitForElementToBeHidden(sel) == << Step("waitFor", sel, "hidden") >>
waitForTimeout(ms) == << Step("waitForTimeout", "", ms) >>
expectElementToBeVisible(sel) == << Step("toBeVisible", sel, <<>>) >>
expectElementToBeHidden(sel) == << Step("toBeHidden", sel, <<>>) >>
expectElementToContainText(sel, text) == << Step("toContainText", sel, text) >>
expectElementToHaveText(sel, text) == << Step("toHaveText", sel, text) >>
expectUrlToContain(urlPart) == << Step("toHaveURL", urlPart, <<>>) >>
expectElementCountToBe(sel, count) == << Step("toHaveCount", sel, count) >>

\* return await locator.count()
getElementCount(a, sel) ==
  With(LocatorCount(a, Loc(sel)), LAMBDA r :
    IF r.ok THEN Returned(a, r.value, << Call("count", sel, 0, TRUE) >>)
    ELSE Threw(a, "engine", << Call("count", sel, 0, FALSE) >>))

\* const text = await locator.textContent(); return text?.trim() || ''
getText(a, sel) ==
  With(LocatorTextContent(a, Loc(sel)), LAMBDA r :
    IF r.ok THEN Returned(a, Trim(r.value), << Call("textContent", sel, 0, TRUE) >>)
    ELSE Threw(a, "engine", << Call("textContent", sel, 0, FALSE) >>))

\* for (const element of await locator.all()) texts.push(text?.trim() || '')
getAllText(a, sel) ==
  IF Malformed(sel) THEN Threw(a, "engine", << Call("all", sel, 0, FALSE) >>)
  ELSE With(Matching(a, Loc(sel)), LAMBDA m :
         Returned(a, [i \in 1..Len(m) |-> Trim(m[i].text)], << Call("all", sel, 0, TRUE) >>))

\* try { return await locator.isX() } catch { return false }
SoftCheck(a, call, sel, r) ==
  Returned(a, IF r.ok THEN r.value ELSE FALSE, << Call(call, sel, 0, r.ok) >>)

isElementVisible(a, sel) == SoftCheck(a, "isVisible", sel, LocatorIsVisible(a, Loc(sel)))
isElementEnabled(a, sel) == SoftCheck(a, "isEnabled", sel, LocatorIsEnabled(a, Loc(sel)))
isElementDisabled(a, sel) == SoftCheck(a, "isDisabled", sel, LocatorIsDisabled(a, Loc(sel)))
isElementChecked(a, sel) == SoftCheck(a, "isChecked", sel, LocatorIsChecked(a, Loc(sel)))

\* const count = await locator.count(); return count > 0   (no try/catch)
isElementPresent(a, sel) ==
  LET r == LocatorCount(a, Loc(sel))
  IN IF r.ok THEN Returned(a, r.value > 0, << Call("count", sel, 0, TRUE) >>)
     ELSE Threw(a, "engine", << Call("count", sel, 0, FALSE) >>)

\* The calls of a first part of an operation come before those of the rest.
After(first, rest) == [rest EXCEPT !.calls = first.calls \o @]

(***************************************************************************)
(* LoginPage                                                               *)
(***************************************************************************)
LoginPage_navigateToLoginPage == goto(URLS.login) \o waitForPageLoad
LoginPage_enterUsername(username) == fillInput("#user-name", username)
LoginPage_enterPassword(password) == fillInput("#password", password)
LoginPage_clickLoginButton == clickElement("#login-button")

\* Mutant: the two credentials typed into each other's field.
C2_Mut_login(username, password) ==
  LoginPage_enterUsername(password) \o LoginPage_enterPassword(username)
  \o LoginPage_clickLoginButton

\* Mutant: the username typed again after the password, a step re-issued.
C11_Mut_login(username, password) ==
  LoginPage_enterUsername(username) \o LoginPage_enterPassword(password)
  \o LoginPage_enterUsername(username) \o LoginPage_clickLoginButton

LoginPage_login(username, password) ==
  LoginPage_enterUsername(username) \o LoginPage_enterPassword(password)
  \o LoginPage_clickLoginButton

\* if (await isElementVisible(error)) return await getText(error); return ''
\* The text is read on the page as it is when the read is issued (later).
GetErrorMessageRead(later, probe) ==
  IF probe.value THEN After(probe, getText(later, "[data-test=\"error\"]"))
  ELSE Returned(later, <<>>, probe.calls)

LoginPage_getErrorMessage(a) ==
  GetErrorMessageRead(a, isElementVisible(a, "[data-test=\"error\"]"))

LoginPage_isErrorMessageVisible(a) == isElementVisible(a, "[data-test=\"error\"]")

\* closeErrorMessage that clicks the close button without looking for it.
C27_Mut_closeErrorMessage(a) == RunSteps(a, clickElement(".error-button"))
LoginPage_closeErrorMessage(a) ==
  LET probe == isElementVisible(a, ".error-button")
  IN IF probe.value THEN After(probe, RunSteps(a, clickElement(".error-button")))
     ELSE Returned(a, <<>>, probe.calls)

(***************************************************************************)
(* InventoryPage                                                           *)
(***************************************************************************)
InventoryPage_navigateToInventoryPage == goto(URLS.inventory) \o waitForPageLoad

\* The scan shared by the by-name operations: the items of locator(itemSel)
\* .all(), and the first one whose trimmed name text is exactly the name
\* asked for (0: none).
ItemsOf(a, itemSel) ==
  With(Matching(a, Loc(itemSel)), LAMBDA m : [i \in 1..Len(m) |-> m[i].item])

NameOf(a, item, nameSel) == LocatorTextContent(a, In(item, nameSel)).value

\* Mutant: the name asked for is trimmed too before the comparison.
C7_Mut_FindByName(a, itemSel, nameSel, name) ==
  LET items == ItemsOf(a, itemSel)
      hits == {i \in 1..Len(items) : Trim(NameOf(a, items[i], nameSel)) = Trim(name)}
  IN IF hits = {} THEN 0 ELSE items[CHOOSE i \in hits : \A j \in hits : i <= j]

FindByName(a, itemSel, nameSel, name) ==
  With(ItemsOf(a, itemSel), LAMBDA items :
    With({i \in 1..Len(items) : Trim(NameOf(a, items[i], nameSel)) = name}, LAMBDA hits :
      IF hits = {} THEN 0 ELSE items[CHOOSE i \in hits : \A j \in hits : i <= j]))

ScanCalls(a, itemSel, nameSel, found) ==
  With(ItemsOf(a, itemSel), LAMBDA items :
    << Call("all", itemSel, 0, TRUE) >> \o
    [i \in 1..(IF found = 0 THEN Len(items) ELSE found) |->
       Call("textContent", nameSel, items[i], TRUE)])

\* Mutant: the loop falls through without the final throw.
C8_Mut_ClickInItemByName(a, itemSel, nameSel, name, target) ==
  LET found == FindByName(a, itemSel, nameSel, name)
      scan == ScanCalls(a, itemSel, nameSel, found)
      r == LocatorClick(a, In(found, target))
  IN IF found = 0 THEN Returned(a, <<>>, scan)
     ELSE IF r.ok THEN Returned(r.app, <<>>, scan \o << Call("click", target, found, TRUE) >>)
     ELSE Threw(a, "engine", scan \o << Call("click", target, found, FALSE) >>)

\* for (const product of products) if (name?.trim() === productName)
\*   { await product.locator(target).click(); return }
\* throw new Error(notFound)
ClickInItemByName(a, itemSel, nameSel, name, target) ==
  With(FindByName(a, itemSel, nameSel, name), LAMBDA found :
    LET scan == ScanCalls(a, itemSel, nameSel, found)
    IN IF found = 0 THEN Threw(a, "not-found", scan)
       ELSE With(LocatorClick(a, In(found, target)), LAMBDA r :
              IF r.ok
                THEN Returned(r.app, <<>>, scan \o << Call("click", target, found, TRUE) >>)
                ELSE Threw(a, "engine", scan \o << Call("click", target, found, FALSE) >>)))

InventoryPage_addProductToCartByName(a, productName) ==
  ClickInItemByName(a, ".inventory_item", ".inventory_item_name", productName,
                    "button[id^=\"add-to-cart\"]")

InventoryPage_removeProductFromCartByName(a, productName) ==
  ClickInItemByName(a, ".inventory_item", ".inventory_item_name", productName,
                    "button[id^=\"remove\"]")

InventoryPage_clickProductByName(a, productName) ==
  ClickInItemByName(a, ".inventory_item", ".inventory_item_name", productName,
                    ".inventory_item_name")

InventoryPage_clickProductImageByName(a, productName) ==
  ClickInItemByName(a, ".inventory_item", ".inventory_item_name", productName, "img")

\* Mutant: the count read from the cart link instead of the badge on it.
C5_Mut_GetCartItemCount(a) ==
  LET probe == isElementVisible(a, ".shopping_cart_badge")
      text == getText(a, ".shopping_cart_link")
  IN IF ~probe.value THEN Returned(a, Number(0), probe.calls)
     ELSE IF text.status = "ok"
       THEN Returned(a, ParseNumber(text.value), probe.calls \o text.calls)
     ELSE After(probe, text)

\* if (await isElementVisible(badge)) return parseInt(await getText(badge), 10)
\* return 0
GetCartItemCount(a) ==
  With(isElementVisible(a, ".shopping_cart_badge"), LAMBDA probe :
    IF ~probe.value THEN Returned(a, Number(0), probe.calls)
    ELSE With(getText(a, ".shopping_cart_badge"), LAMBDA text :
      IF text.status = "ok"
        THEN Returned(a, ParseNumber(text.value), probe.calls \o text.calls)
        ELSE After(probe, text)))

InventoryPage_getCartItemCount(a) == GetCartItemCount(a)
InventoryPage_clickCartIcon == clickElement(".shopping_cart_link")
\* Mutant: the title read without the trim of getText.
C3_Mut_getPageTitle(a) ==
  Returned(a, LocatorTextContent(a, Loc(".title")).value,
           << Call("textContent", ".title", 0, TRUE) >>)
InventoryPage_getPageTitle(a) == getText(a, ".title")
InventoryPage_getProductNames(a) == getAllText(a, ".inventory_item_name")
InventoryPage_getProductPrices(a) == getAllText(a, ".inventory_item_price")

InventoryPage_isCartBadgeVisible(a) == isElementVisible(a, ".shopping_cart_badge")

\* sortProductsBy that selects the price option of the same direction.
C20_Mut_sortProductsBy(option) ==
  selectDropdown(".product_sort_container",
                 IF option = sortOptions.nameAZ THEN sortOptions.priceLowHigh
                 ELSE sortOptions.priceHighLow)
  \o waitForTimeout(500)
InventoryPage_sortProductsBy(option) ==
  selectDropdown(".product_sort_container", option) \o waitForTimeout(500)

InventoryPage_openMenu ==
  clickElement("#react-burger-menu-btn") \o waitForElementToBeVisible("#logout_sidebar_link")

InventoryPage_closeMenu ==
  clickElement("#react-burger-cross-btn") \o waitForElementToBeHidden("#logout_sidebar_link")

\* logout that follows the All Items link of the menu.
C14_Mut_logout == InventoryPage_openMenu \o clickElement("#inventory_sidebar_link")
InventoryPage_logout == InventoryPage_openMenu \o clickElement("#logout_sidebar_link")

\* resetAppState that opens and closes the menu without the reset link.
C17_Mut_resetAppState == InventoryPage_openMenu \o InventoryPage_closeMenu
InventoryPage_resetAppState ==
  InventoryPage_openMenu \o clickElement("#reset_sidebar_link") \o InventoryPage_closeMenu

InventoryPage_verifyOnInventoryPage ==
  expectUrlToContain("inventory") \o expectElementToBeVisible(".inventory_list")

(***************************************************************************)
(* ProductDetailPage                                                       *)
(***************************************************************************)
ProductDetailPage_addToCart == clickElement("button[id^=\"add-to-cart\"]")
ProductDetailPage_removeFromCart == clickElement("button[id^=\"remove\"]")
\* getCartItemCount that reads the badge without the visibility probe.
C26_Mut_getCartItemCount(a) ==
  With(getText(a, ".shopping_cart_badge"), LAMBDA text :
    IF text.status = "ok" THEN Returned(a, ParseNumber(text.value), text.calls) ELSE text)
ProductDetailPage_getCartItemCount(a) == GetCartItemCount(a)

\* goBackToProducts that puts the product in the cart on its way back.
C16_Mut_goBackToProducts ==
  clickElement("button[id^=\"add-to-cart\"]") \o clickElement("#back-to-products")
ProductDetailPage_goBackToProducts == clickElement("#back-to-products")

(***************************************************************************)
(* CartPage                                                                *)
(***************************************************************************)
CartPage_navigateToCartPage == goto(URLS.cart) \o waitForPageLoad
CartPage_getCartItemCount(a) == getElementCount(a, ".cart_item")
CartPage_getCartItemNames(a) == getAllText(a, ".inventory_item_name")

\* const count = await getCartItemCount(); return count === 0
CartPage_isCartEmpty(a) ==
  With(CartPage_getCartItemCount(a), LAMBDA count :
    IF count.status = "ok" THEN [count EXCEPT !.value = (@ = 0)] ELSE count)

\* Mutant: the index taken as 1-based.
C13_Mut_removeItemByIndex(a, index) ==
  LET items == ItemsOf(a, ".cart_item")
      all == << Call("all", ".cart_item", 0, TRUE) >>
      target == "button[id^=\"remove\"]"
      r == LocatorClick(a, In(items[index], target))
  IN IF index >= 1 /\ index <= Len(items)
       THEN IF r.ok
              THEN Returned(r.app, <<>>, all \o << Call("click", target, items[index], TRUE) >>)
              ELSE Threw(a, r.err, all \o << Call("click", target, items[index], FALSE) >>)
       ELSE Threw(a, "out-of-range", all)

\* const items = await locator(cartItems).all()
\* if (index >= 0 && index < items.length) await items[index].locator(remove).click()
\* else throw new Error(out of range)
CartPage_removeItemByIndex(a, index) ==
  With(ItemsOf(a, ".cart_item"), LAMBDA items :
    LET all == << Call("all", ".cart_item", 0, TRUE) >>
        target == "button[id^=\"remove\"]"
    IN IF index >= 0 /\ index < Len(items)
         THEN With(LocatorClick(a, In(items[index + 1], target)), LAMBDA r :
                IF r.ok
                  THEN Returned(r.app, <<>>,
                                all \o << Call("click", target, items[index + 1], TRUE) >>)
                  ELSE Threw(a, r.err,
                             all \o << Call("click", target, items[index + 1], FALSE) >>))
         ELSE Threw(a, "out-of-range", all))

\* One turn of the loop of removeAllItems:
\*   await removeItemByIndex(0); await waitForTimeout(300)
\*   itemCount = await getCartItemCount()
RemoveAllItemsTurn(a) ==
  With(CartPage_removeItemByIndex(a, 0), LAMBDA removed :
    IF removed.status # "ok" THEN removed
    ELSE With(RunSteps(removed.app, waitForTimeout(300)), LAMBDA waited :
           After(removed, After(waited, CartPage_getCartItemCount(waited.app)))))

CartPage_verifyOnCartPage ==
  expectUrlToContain("cart") \o expectElementToBeVisible("#checkout")
  \o expectElementToBeVisible("#continue-shopping")

CartPage_removeItemByName(a, productName) ==
  ClickInItemByName(a, ".cart_item", ".inventory_item_name", productName,
                    "button[id^=\"remove\"]")

\* for (const item of items) if (name?.trim() === productName)
\*   return parseInt(quantityText?.trim() || '0', 10)
\* return 0
CartPage_getItemQuantity(a, productName) ==
  With(FindByName(a, ".cart_item", ".inventory_item_name", productName), LAMBDA found :
    LET scan == ScanCalls(a, ".cart_item", ".inventory_item_name", found)
    IN IF found = 0 THEN Returned(a, Number(0), scan)
       ELSE With(LocatorTextContent(a, In(found, ".cart_quantity")), LAMBDA q :
              IF q.ok
                THEN Returned(a, With(Trim(q.value), LAMBDA quantityText :
                                   ParseNumber(IF quantityText = <<>> THEN NumStr(0)
                                               ELSE quantityText)),
                              scan \o << Call("textContent", ".cart_quantity", found, TRUE) >>)
                ELSE Threw(a, "engine",
                           scan \o << Call("textContent", ".cart_quantity", found, FALSE) >>)))

\* Mutant: Continue Shopping bound to the checkout button.
C1_Mut_continueShopping == clickElement("#checkout")
CartPage_continueShopping == clickElement("#continue-shopping")
CartPage_proceedToCheckout == clickElement("#checkout")

(***************************************************************************)
(* CheckoutStepOnePage                                                     *)
(***************************************************************************)
CheckoutStepOnePage_navigateToCheckoutStepOne == goto(URLS.checkoutStepOne) \o waitForPageLoad
CheckoutStepOnePage_enterFirstName(firstName) == fillInput("#first-name", firstName)
CheckoutStepOnePage_enterLastName(lastName) == fillInput("#last-name", lastName)
CheckoutStepOnePage_enterPostalCode(postalCode) == fillInput("#postal-code", postalCode)

\* Mutant: the first and the last name typed into each other's field.
C4_Mut_fillCheckoutInformation(info) ==
  CheckoutStepOnePage_enterFirstName(info.lastName)
  \o CheckoutStepOnePage_enterLastName(info.firstName)
  \o CheckoutStepOnePage_enterPostalCode(info.postalCode)

CheckoutStepOnePage_fillCheckoutInformation(info) ==
  CheckoutStepOnePage_enterFirstName(info.firstName)
  \o CheckoutStepOnePage_enterLastName(info.lastName)
  \o CheckoutStepOnePage_enterPostalCode(info.postalCode)

CheckoutStepOnePage_clickContinue == clickElement("#continue")
\* clickCancel that presses Continue.
C15_Mut_clickCancel == clickElement("#continue")
CheckoutStepOnePage_clickCancel == clickElement("#cancel")

CheckoutStepOnePage_verifyOnCheckoutStepOne ==
  expectUrlToContain("checkout-step-one") \o expectElementToBeVisible("#first-name")
  \o expectElementToBeVisible("#continue")
CheckoutStepOnePage_completeStepOne(info) ==
  CheckoutStepOnePage_fillCheckoutInformation(info) \o CheckoutStepOnePage_clickContinue

CheckoutStepOnePage_getErrorMessage(a) ==
  GetErrorMessageRead(a, isElementVisible(a, "[data-test=\"error\"]"))

CheckoutStepOnePage_isErrorMessageVisible(a) == isElementVisible(a, "[data-test=\"error\"]")

CheckoutStepOnePage_closeErrorMessage(a) ==
  LET probe == isElementVisible(a, ".error-button")
  IN IF probe.value THEN After(probe, RunSteps(a, clickElement(".error-button")))
     ELSE Returned(a, <<>>, probe.calls)


(***************************************************************************)
(* CheckoutStepTwoPage                                                     *)
(***************************************************************************)
CheckoutStepTwoPage_navigateToCheckoutStepTwo == goto(URLS.checkoutStepTwo) \o waitForPageLoad
CheckoutStepTwoPage_clickFinish == clickElement("#finish")
CheckoutStepTwoPage_clickCancel == clickElement("#cancel")

\* return (await getText(label)).replace(prefix, '').trim()
LabelledAmount(a, sel, prefix) ==
  With(getText(a, sel), LAMBDA text :
    IF text.status = "ok" THEN [text EXCEPT !.value = Trim(Replace(@, Lit(prefix)))]
    ELSE text)

CheckoutStepTwoPage_getCartItemCount(a) == getElementCount(a, ".cart_item")

CheckoutStepTwoPage_verifyOnCheckoutStepTwo ==
  expectUrlToContain("checkout-step-two") \o expectElementToBeVisible("#finish")
  \o expectElementToBeVisible(".summary_subtotal_label")
CheckoutStepTwoPage_getItemTotal(a) == LabelledAmount(a, ".summary_subtotal_label", "Item total: ")
CheckoutStepTwoPage_getTax(a) == LabelledAmount(a, ".summary_tax_label", "Tax: ")
CheckoutStepTwoPage_getTotal(a) == LabelledAmount(a, ".summary_total_label", "Total: ")

\* Mutant: the amount parsed with its currency sign.
C6_Mut_AsNumber(amount) ==
  IF amount.status = "ok" THEN [amount EXCEPT !.value = ParseNumber(@)] ELSE amount

\* return parseFloat(amount.replace('$', ''))
AsNumber(amount) ==
  With(amount, LAMBDA text :
    IF text.status = "ok" THEN [text EXCEPT !.value = ParseNumber(Replace(@, Lit("$")))]
    ELSE text)

CheckoutStepTwoPage_getItemTotalAsNumber(a) == AsNumber(CheckoutStepTwoPage_getItemTotal(a))
CheckoutStepTwoPage_getTaxAsNumber(a) == AsNumber(CheckoutStepTwoPage_getTax(a))
CheckoutStepTwoPage_getTotalAsNumber(a) == AsNumber(CheckoutStepTwoPage_getTotal(a))

\* JavaScript numbers are IEEE-754 doubles.  The double of an amount of c
\* cents is c/100 + e * 2^-59 / 100 for a small integer e: a number is kept
\* as its cents n and that offset e, and compared on the pair.  A double
\* with ulp 2^-k is a multiple of Ulp = 100 * 2^(59-k) of these units.
RECURSIVE Pow2(_)
Pow2(k) == IF k = 0 THEN 1 ELSE 2 * Pow2(k - 1)

RECURSIVE Pow2Mod(_, _)
Pow2Mod(k, m) == IF k = 0 THEN 1 ELSE (2 * Pow2Mod(k - 1, m)) % m

\* k with ulp 2^-k for the doubles next to c/100: 2^(52-k) <= c/100 < 2^(53-k)
RECURSIVE Binade(_)
Binade(c) ==
  IF c >= 200 THEN Binade(c \div 2) - 1
  ELSE IF c < 100 THEN Binade(2 * c) + 1
  ELSE 52

Ulp(c) == 100 * Pow2(59 - Binade(c))

\* 100 * M - c * 2^k for the mantissa M nearest to c * 2^k / 100 (no ties:
\* c * 2^k is a multiple of 4)
MantissaError(c) ==
  With(((c % 100) * Pow2Mod(Binade(c), 100)) % 100, LAMBDA r :
    IF 2 * r < 100 THEN -r ELSE 100 - r)

OddMantissa(c) == ((c % 200) * Pow2Mod(Binade(c), 200) + MantissaError(c)) % 200 # 0

\* parseFloat of a decimal with two places: the nearest double.
RoundingError(c) == IF c = 0 THEN 0 ELSE MantissaError(c) * Pow2(59 - Binade(c))

ToDouble(x) == [nan |-> x.nan, n |-> x.n, e |-> IF x.nan THEN 0 ELSE RoundingError(x.n)]

\* c/100 is a power of two: the doubles below it are spaced half as wide.
RECURSIVE PowerOfTwo(_)
PowerOfTwo(c) ==
  \/ c = 100
  \/ c > 100 /\ c % 2 = 0 /\ PowerOfTwo(c \div 2)
  \/ 0 < c /\ c <= 50 /\ PowerOfTwo(2 * c)

\* The offset of the double nearest to c/100 + e units, ties to the even
\* mantissa.
RoundToDouble(c, e) ==
  IF c = 0 THEN 0
  ELSE With(e - RoundingError(c), LAMBDA q :
         With(IF PowerOfTwo(c) /\ q < 0 THEN Ulp(c) \div 2 ELSE Ulp(c), LAMBDA g :
           With((2 * q + g) \div (2 * g), LAMBDA j :
             RoundingError(c) + g *
               (IF (2 * q + g) % (2 * g) = 0 /\ (OddMantissa(c) # (j % 2 = 1))
                  THEN j - 1 ELSE j))))

\* x + y, rounded
Plus(x, y) ==
  IF x.nan \/ y.nan THEN [nan |-> TRUE, n |-> 0, e |-> 0]
  ELSE [nan |-> FALSE, n |-> x.n + y.n, e |-> RoundToDouble(x.n + y.n, x.e + y.e)]

\* x - y for doubles within a factor of two of each other (or y = 0): the
\* difference is a double, nothing is rounded.
Minus(x, y) == [nan |-> x.nan \/ y.nan, n |-> x.n - y.n, e |-> x.e - y.e]

Abs(x) == IF x.n < 0 \/ (x.n = 0 /\ x.e < 0) THEN [x EXCEPT !.n = -x.n, !.e = -x.e] ELSE x

\* x < y: false when either side is NaN
LessThan(x, y) == ~x.nan /\ ~y.nan /\ (x.n < y.n \/ (x.n = y.n /\ x.e < y.e))

\* Math.abs(total - expectedTotal) < 0.01
ToleranceCents == 1
WithinTolerance(total, expectedTotal) ==
  LessThan(Abs(Minus(total, expectedTotal)), ToDouble(Number(ToleranceCents)))

CheckoutStepTwoPage_verifyTotalCalculation(a) ==
  With(CheckoutStepTwoPage_getItemTotalAsNumber(a), LAMBDA itemTotal :
    IF itemTotal.status # "ok" THEN itemTotal
    ELSE With(CheckoutStepTwoPage_getTaxAsNumber(a), LAMBDA tax :
      IF tax.status # "ok" THEN After(itemTotal, tax)
      ELSE With(CheckoutStepTwoPage_getTotalAsNumber(a), LAMBDA total :
        IF total.status # "ok" THEN After(itemTotal, After(tax, total))
        ELSE Returned(a, WithinTolerance(ToDouble(total.value),
                                         Plus(ToDouble(itemTotal.value), ToDouble(tax.value))),
                      itemTotal.calls \o tax.calls \o total.calls))))


(***************************************************************************)
(* CheckoutCompletePage                                                    *)
(***************************************************************************)
CheckoutCompletePage_navigateToCheckoutComplete == goto(URLS.checkoutComplete) \o waitForPageLoad
CheckoutCompletePage_getCompleteHeader(a) == getText(a, ".complete-header")
CheckoutCompletePage_isOrderComplete(a) == isElementVisible(a, ".complete-header")
\* Mutant: goBackHome that follows the cart link of the header.
C24_Mut_goBackHome == clickElement(".shopping_cart_link")
CheckoutCompletePage_goBackHome == clickElement("#back-to-products")

\* An argument left out (or an empty string) skips its text expectation.
CheckoutCompletePage_verifyOrderCompletion(expectedHeader, expectedText) ==
  expectElementToBeVisible(".complete-header") \o expectElementToBeVisible(".complete-text")
  \o (IF expectedHeader # <<>>
        THEN expectElementToContainText(".complete-header", expectedHeader) ELSE <<>>)
  \o (IF expectedText # <<>>
        THEN expectElementToContainText(".complete-text", expectedText) ELSE <<>>)

CheckoutCompletePage_verifyOnCheckoutComplete ==
  expectUrlToContain("checkout-complete") \o expectElementToBeVisible(".complete-header")
  \o expectElementToBeVisible("#back-to-products")

\* completePostOrderFlow that goes back home before verifying.
C19_Mut_completePostOrderFlow ==
  CheckoutCompletePage_goBackHome \o CheckoutCompletePage_verifyOrderCompletion(<<>>, <<>>)
CheckoutCompletePage_completePostOrderFlow ==
  CheckoutCompletePage_verifyOrderCompletion(<<>>, <<>>) \o CheckoutCompletePage_goBackHome

(***************************************************************************)
(* helpers.ts                                                              *)
(***************************************************************************)
\* parsePriceToNumber without the replace of the currency sign.
C21_Mut_parsePriceToNumber(priceString) == ParseNumber(Trim(priceString))
\* parseFloat(priceString.replace('$', '').trim())
parsePriceToNumber(priceString) == ParseNumber(Trim(Replace(priceString, Lit("$"))))

\* x > y and x < y on numbers: false when either side is NaN.
Greater(x, y) == ~x.nan /\ ~y.nan /\ x.n > y.n
Less(x, y) == ~x.nan /\ ~y.nan /\ x.n < y.n

\* for (i = 0; i < arr.length - 1; i++) if (arr[i] > arr[i + 1]) return false;
\* return true
isSortedAscending(arr) == \A i \in 1..(Len(arr) - 1) : ~Greater(arr[i], arr[i + 1])
isSortedDescending(arr) == \A i \in 1..(Len(arr) - 1) : ~Less(arr[i], arr[i + 1])

(***************************************************************************)
(* The fixture modules: products.ts, users.ts and the checkout data of     *)
(* types/index.ts.  Arrays are objects on a heap and are reached through   *)
(* references: [...x] and slice allocate a new array, sort and reverse     *)
(* rearrange the array they are called on.  The records are objects too,   *)
(* reached through the exported bindings.                                  *)
(***************************************************************************)
Undefined == "undefined"

Min(x, y) == IF x < y THEN x ELSE y
Max(x, y) == IF x > y THEN x ELSE y

\* const products = { backpack: {...}, ... }
products ==
  [backpack     |-> allProducts[1],
   bikeLight    |-> allProducts[2],
   boltTShirt   |-> allProducts[3],
   fleeceJacket |-> allProducts[4],
   onesie       |-> allProducts[5],
   tShirtRed    |-> allProducts[6]]

\* Object.keys(products) / Object.values(products), in insertion order
ProductKeys == <<"backpack", "bikeLight", "boltTShirt", "fleeceJacket", "onesie", "tShirtRed">>
ObjectValues(object, keys) == [i \in 1..Len(keys) |-> object[keys[i]]]

checkoutTestData ==
  << Info(Str("Jane"), Str("Smith"), Str("90210")),
     Info(Str("Bob"), Str("Johnson"), Str("54321")),
     Info(Str("Alice"), Str("Williams"), Str("67890")),
     Info(Str("Test"), Str("User"), Str("11111")) >>

\* An array literal, or any expression that builds a new array.
NewArray(heap, elements) == [heap |-> Append(heap, elements), ref |-> Len(heap) + 1]
\* [...array]
Spread(heap, ref) == NewArray(heap, heap[ref])
\* array.reverse(): in place
ArrayReverse(heap, ref) == [heap EXCEPT ![ref] = Reverse(@)]
\* array.sort(compare): in place; with a comparator that answers at random
\* the outcome is some rearrangement, given here by order.
ArraySort(heap, ref, order) ==
  [heap EXCEPT ![ref] = [i \in 1..Len(order) |-> heap[ref][order[i]]]]
\* array.slice(0, end): a new array; a negative end counts from the back.
ArraySlice(heap, ref, end) ==
  NewArray(heap, SubSeq(heap[ref], 1,
             IF end < 0 THEN Max(Len(heap[ref]) + end, 0) ELSE Min(end, Len(heap[ref]))))

\* The heap slots of the exported arrays, in the order the modules are loaded.
Exported ==
  [allProducts |-> 1, productNamesAZ |-> 2, productNamesZA |-> 3,
   pricesLowToHigh |-> 4, pricesHighToLow |-> 5, checkoutTestData |-> 6]

\* The heap once products.ts and types/index.ts are loaded.
LoadedArrays ==
  LET h1 == NewArray(<<>>, ObjectValues(products, ProductKeys))
      h2 == NewArray(h1.heap, productNamesAZ)
      c3 == Spread(h2.heap, h2.ref)
      h3 == ArrayReverse(c3.heap, c3.ref)
      h4 == NewArray(h3, pricesLowToHigh)
      c5 == Spread(h4.heap, h4.ref)
      h5 == ArrayReverse(c5.heap, c5.ref)
      h6 == NewArray(h5, checkoutTestData)
  IN h6.heap

\* Everything the fixture modules export, after their load.
Fixtures ==
  [arrays |-> LoadedArrays,
   products |-> products,
   validUsers |-> validUsers,
   invalidUsers |-> invalidUsers,
   validCheckoutInfo |-> validCheckoutInfo,
   invalidCheckoutInfo |-> invalidCheckoutInfo]

\* What a helper leaves and returns.  Arrays that only the helper's frame
\* referred to are gone when it returns; a returned array is given by its
\* elements.
Helper(d, heap, value) ==
  [data |-> [d EXCEPT !.arrays = SubSeq(heap, 1, Len(d.arrays))], value |-> value]

\* products[productKeys[Math.floor(Math.random() * productKeys.length)]]
getRandomProduct(d, random) ==
  Helper(d, d.arrays, d.products[ProductKeys[random + 1]])

\* getRandomProducts that shuffles the exported array itself.
C28_Mut_getRandomProducts(d, count, order) ==
  LET shuffled == ArraySort(d.arrays, Exported.allProducts, order)
      sliced == ArraySlice(shuffled, Exported.allProducts,
                           Min(count, Len(shuffled[Exported.allProducts])))
  IN [data |-> [d EXCEPT !.arrays = SubSeq(sliced.heap, 1, Len(d.arrays))],
      value |-> sliced.heap[sliced.ref]]
\* const shuffled = [...allProducts].sort(() => 0.5 - Math.random());
\* return shuffled.slice(0, Math.min(count, allProducts.length));
getRandomProducts(d, count, order) ==
  LET copy == Spread(d.arrays, Exported.allProducts)
      shuffled == ArraySort(copy.heap, copy.ref, order)
      sliced == ArraySlice(shuffled, copy.ref,
                           Min(count, Len(shuffled[Exported.allProducts])))
  IN Helper(d, sliced.heap, sliced.heap[sliced.ref])

\* allProducts.find(p => p.name === name)
getProductByName(d, name) ==
  LET all == d.arrays[Exported.allProducts]
      hits == {i \in 1..Len(all) : all[i].name = name}
  IN Helper(d, d.arrays,
            IF hits = {} THEN Undefined ELSE all[CHOOSE i \in hits : \A j \in hits : i <= j])

\* checkoutTestData[Math.floor(Math.random() * checkoutTestData.length)]
getRandomCheckoutInfo(d, random) ==
  Helper(d, d.arrays, d.arrays[Exported.checkoutTestData][random + 1])

MissingFields == {"firstName", "lastName", "postalCode"}

getCheckoutInfoWithMissingField(d, missingField) ==
  Helper(d, d.arrays,
    CASE missingField = "firstName" -> d.invalidCheckoutInfo.missingFirstName
      [] missingField = "lastName" -> d.invalidCheckoutInfo.missingLastName
      [] missingField = "postalCode" -> d.invalidCheckoutInfo.missingPostalCode
      [] OTHER -> d.invalidCheckoutInfo.allFieldsEmpty)

getValidUser(d, type) == Helper(d, d.arrays, d.validUsers[type])
getInvalidUser(d, type) == Helper(d, d.arrays, d.invalidUsers[type])

(***************************************************************************)
(* The test flow: one page, page objects constructed on it, operations     *)
(* called one after the other, each awaited.  A test calls a screen        *)
(* object's interactions while that object's screen is displayed (called   *)
(* elsewhere they find no element and time out, leaving the page as it     *)
(* is); navigation, getErrorMessage and the BasePage probes are called on  *)
(* any screen.                                                             *)
(***************************************************************************)
Init ==
  /\ app = FreshPage
  /\ result = Result("new", <<>>, Returned(FreshPage, <<>>, <<>>))
  /\ pc = Idle
  /\ peer = [page |-> FreshPage, acted |-> FALSE]
  /\ data = Fixtures

\* An awaited operation runs to its end before the next one is called.
Do(op, arg, out) ==
  /\ pc = Idle
  /\ \E o \in {out} :
       /\ app' = o.app
       /\ result' = Result(op, arg, o)
  /\ pc' = pc
  /\ peer' = Own(peer)
  /\ data' = data

On(screen) == app.screen = screen

\* Arguments the tests draw from the fixtures.
Usernames == {u.username : u \in InvalidUserSet \cup {validUsers.standard}}
Passwords == {u.password : u \in testUsers}
FirstNames == {i.firstName : i \in CheckoutInfos}
LastNames == {i.lastName : i \in CheckoutInfos}
PostalCodes == {i.postalCode : i \in CheckoutInfos}

\* Product names asked for: every listed one, and names that are the exact
\* title of no product (other case, surrounding space).
UnknownNames == {Str("sauce labs backpack"), <<WS>> \o Listed[1].name}
ProductNames == ListedNames \cup UnknownNames

GotoUrls == {URLS[k] : k \in DOMAIN URLS}

BasePage_goto == \E url \in GotoUrls : Do("BasePage.goto", url, RunSteps(app, goto(url)))
BasePage_reload == Do("BasePage.reload", <<>>, RunSteps(app, reload))

NavigateToLoginPage ==
  Do("LoginPage.navigateToLoginPage", <<>>, RunSteps(app, LoginPage_navigateToLoginPage))
EnterUsername ==
  On("login") /\ \E u \in Usernames :
    Do("LoginPage.enterUsername", u, RunSteps(app, LoginPage_enterUsername(u)))
EnterPassword ==
  On("login") /\ \E p \in Passwords :
    Do("LoginPage.enterPassword", p, RunSteps(app, LoginPage_enterPassword(p)))
ClickLoginButton ==
  On("login") /\ Do("LoginPage.clickLoginButton", <<>>, RunSteps(app, LoginPage_clickLoginButton))
Login ==
  On("login") /\ \E u \in testUsers :
    Do("LoginPage.login", u, RunSteps(app, LoginPage_login(u.username, u.password)))
LoginCloseErrorMessage ==
  On("login") /\ Do("LoginPage.closeErrorMessage", <<>>, LoginPage_closeErrorMessage(app))

\* getErrorMessage awaits twice: the visibility probe, then the text read.
ErrorMessageOps == {"LoginPage.getErrorMessage", "CheckoutStepOnePage.getErrorMessage"}

GetErrorMessageProbe ==
  \E op \in ErrorMessageOps :
    \E probe \in {isElementVisible(app, "[data-test=\"error\"]")} :
       /\ pc = Idle
       /\ pc' = [at |-> "read", op |-> op, probe |-> probe]
       /\ result' = Result(op, <<>>, Out(app, "pending", "none", <<>>, probe.calls))
       /\ app' = app
       /\ peer' = Own(peer)
       /\ data' = data

GetErrorMessageResume ==
  /\ pc.at = "read"
  /\ \E out \in {GetErrorMessageRead(app, pc.probe)} :
       /\ app' = out.app
       /\ result' = Result(pc.op, <<>>, out)
  /\ pc' = Idle
  /\ peer' = Own(peer)
  /\ data' = data

NavigateToInventoryPage ==
  Do("InventoryPage.navigateToInventoryPage", <<>>,
     RunSteps(app, InventoryPage_navigateToInventoryPage))
AddProductToCartByName ==
  On("inventory") /\ \E n \in ProductNames :
    Do("InventoryPage.addProductToCartByName", n, InventoryPage_addProductToCartByName(app, n))
RemoveProductFromCartByName ==
  On("inventory") /\ \E n \in ProductNames :
    Do("InventoryPage.removeProductFromCartByName", n,
       InventoryPage_removeProductFromCartByName(app, n))
ClickProductByName ==
  On("inventory") /\ \E n \in ProductNames :
    Do("InventoryPage.clickProductByName", n, InventoryPage_clickProductByName(app, n))
ClickProductImageByName ==
  On("inventory") /\ \E n \in ProductNames :
    Do("InventoryPage.clickProductImageByName", n, InventoryPage_clickProductImageByName(app, n))
InventoryGetCartItemCount ==
  On("inventory") /\ Do("InventoryPage.getCartItemCount", <<>>, InventoryPage_getCartItemCount(app))
ClickCartIcon ==
  On("inventory") /\ Do("InventoryPage.clickCartIcon", <<>>, RunSteps(app, InventoryPage_clickCartIcon))
InventoryGetPageTitle ==
  On("inventory") /\ Do("InventoryPage.getPageTitle", <<>>, InventoryPage_getPageTitle(app))
GetProductNames ==
  On("inventory") /\ Do("InventoryPage.getProductNames", <<>>, InventoryPage_getProductNames(app))
IsCartBadgeVisible ==
  On("inventory") /\
  Do("InventoryPage.isCartBadgeVisible", <<>>, InventoryPage_isCartBadgeVisible(app))
SortProductsBy ==
  On("inventory") /\ \E option \in SortOption :
    Do("InventoryPage.sortProductsBy", option, RunSteps(app, InventoryPage_sortProductsBy(option)))
OpenMenu ==
  On("inventory") /\ Do("InventoryPage.openMenu", <<>>, RunSteps(app, InventoryPage_openMenu))
CloseMenu ==
  On("inventory") /\ Do("InventoryPage.closeMenu", <<>>, RunSteps(app, InventoryPage_closeMenu))
Logout ==
  On("inventory") /\ Do("InventoryPage.logout", <<>>, RunSteps(app, InventoryPage_logout))
ResetAppState ==
  On("inventory") /\
  Do("InventoryPage.resetAppState", <<>>, RunSteps(app, InventoryPage_resetAppState))

AddToCart ==
  On("detail") /\ Do("ProductDetailPage.addToCart", <<>>, RunSteps(app, ProductDetailPage_addToCart))
RemoveFromCart ==
  On("detail") /\
  Do("ProductDetailPage.removeFromCart", <<>>, RunSteps(app, ProductDetailPage_removeFromCart))
DetailGetCartItemCount ==
  On("detail") /\
  Do("ProductDetailPage.getCartItemCount", <<>>, ProductDetailPage_getCartItemCount(app))
GoBackToProducts ==
  On("detail") /\
  Do("ProductDetailPage.goBackToProducts", <<>>, RunSteps(app, ProductDetailPage_goBackToProducts))

NavigateToCartPage ==
  Do("CartPage.navigateToCartPage", <<>>, RunSteps(app, CartPage_navigateToCartPage))
CartGetCartItemNames ==
  On("cart") /\ Do("CartPage.getCartItemNames", <<>>, CartPage_getCartItemNames(app))
RemoveItemByName ==
  On("cart") /\ \E n \in ProductNames :
    Do("CartPage.removeItemByName", n, CartPage_removeItemByName(app, n))
GetItemQuantity ==
  On("cart") /\ \E n \in ProductNames :
    Do("CartPage.getItemQuantity", n, CartPage_getItemQuantity(app, n))
CartGetCartItemCount ==
  On("cart") /\ Do("CartPage.getCartItemCount", <<>>, CartPage_getCartItemCount(app))
IsCartEmpty ==
  On("cart") /\ Do("CartPage.isCartEmpty", <<>>, CartPage_isCartEmpty(app))
RemoveItemByIndex ==
  On("cart") /\ \E index \in 0..NumProducts :
    Do("CartPage.removeItemByIndex", index, CartPage_removeItemByIndex(app, index))

\* removeAllItems: let itemCount = await getCartItemCount(), then the loop
\* while (itemCount > 0), one turn at a time.  The item lines of the cart
\* and of the order overview carry the same selector.
RemoveAllItems ==
  /\ pc = Idle
  /\ app.screen \in {"cart", "step2"}
  /\ \E itemCount \in {CartPage_getCartItemCount(app)} :
       IF itemCount.status = "ok" /\ itemCount.value > 0
         THEN /\ pc' = [at |-> "loop", op |-> "CartPage.removeAllItems"]
              /\ result' = Result("CartPage.removeAllItems", <<>>,
                                  Out(app, "pending", "none", <<>>, itemCount.calls))
         ELSE /\ pc' = Idle
              /\ result' = Result("CartPage.removeAllItems", <<>>,
                                  [itemCount EXCEPT !.value = <<>>])
  /\ app' = app
  /\ peer' = Own(peer)
  /\ data' = data

RemoveAllItemsLoop ==
  /\ pc.at = "loop"
  /\ \E turn \in {RemoveAllItemsTurn(app)} :
       /\ app' = turn.app
       /\ IF turn.status = "ok" /\ turn.value > 0
            THEN /\ pc' = pc
                 /\ result' = [result EXCEPT !.calls = @ \o turn.calls]
            ELSE /\ pc' = Idle
                 /\ result' = Result(pc.op, <<>>,
                                     [turn EXCEPT !.value = <<>>, !.calls = result.calls \o @])
  /\ peer' = Own(peer)
  /\ data' = data

ContinueShopping ==
  On("cart") /\ Do("CartPage.continueShopping", <<>>, RunSteps(app, CartPage_continueShopping))
ProceedToCheckout ==
  On("cart") /\ Do("CartPage.proceedToCheckout", <<>>, RunSteps(app, CartPage_proceedToCheckout))

NavigateToCheckoutStepOne ==
  Do("CheckoutStepOnePage.navigateToCheckoutStepOne", <<>>,
     RunSteps(app, CheckoutStepOnePage_navigateToCheckoutStepOne))
EnterFirstName ==
  On("step1") /\ \E x \in FirstNames :
    Do("CheckoutStepOnePage.enterFirstName", x, RunSteps(app, CheckoutStepOnePage_enterFirstName(x)))
EnterLastName ==
  On("step1") /\ \E x \in LastNames :
    Do("CheckoutStepOnePage.enterLastName", x, RunSteps(app, CheckoutStepOnePage_enterLastName(x)))
EnterPostalCode ==
  On("step1") /\ \E x \in PostalCodes :
    Do("CheckoutStepOnePage.enterPostalCode", x, RunSteps(app, CheckoutStepOnePage_enterPostalCode(x)))
FillCheckoutInformation ==
  On("step1") /\ \E info \in CheckoutInfos :
    Do("CheckoutStepOnePage.fillCheckoutInformation", info,
       RunSteps(app, CheckoutStepOnePage_fillCheckoutInformation(info)))
ClickContinue ==
  On("step1") /\
  Do("CheckoutStepOnePage.clickContinue", <<>>, RunSteps(app, CheckoutStepOnePage_clickContinue))
StepOneClickCancel ==
  On("step1") /\
  Do("CheckoutStepOnePage.clickCancel", <<>>, RunSteps(app, CheckoutStepOnePage_clickCancel))
CompleteStepOne ==
  On("step1") /\ \E info \in CheckoutInfos :
    Do("CheckoutStepOnePage.completeStepOne", info,
       RunSteps(app, CheckoutStepOnePage_completeStepOne(info)))
StepOneCloseErrorMessage ==
  On("step1") /\
  Do("CheckoutStepOnePage.closeErrorMessage", <<>>, CheckoutStepOnePage_closeErrorMessage(app))

NavigateToCheckoutStepTwo ==
  Do("CheckoutStepTwoPage.navigateToCheckoutStepTwo", <<>>,
     RunSteps(app, CheckoutStepTwoPage_navigateToCheckoutStepTwo))
ClickFinish ==
  On("step2") /\
  Do("CheckoutStepTwoPage.clickFinish", <<>>, RunSteps(app, CheckoutStepTwoPage_clickFinish))
StepTwoClickCancel ==
  On("step2") /\
  Do("CheckoutStepTwoPage.clickCancel", <<>>, RunSteps(app, CheckoutStepTwoPage_clickCancel))
VerifyTotalCalculation ==
  On("step2") /\
  Do("CheckoutStepTwoPage.verifyTotalCalculation", <<>>,
     CheckoutStepTwoPage_verifyTotalCalculation(app))

NavigateToCheckoutComplete ==
  Do("CheckoutCompletePage.navigateToCheckoutComplete", <<>>,
     RunSteps(app, CheckoutCompletePage_navigateToCheckoutComplete))
GoBackHome ==
  On("complete") /\
  Do("CheckoutCompletePage.goBackHome", <<>>, RunSteps(app, CheckoutCompletePage_goBackHome))

Next ==
  \/ BasePage_goto \/ BasePage_reload
  \/ NavigateToLoginPage \/ EnterUsername \/ EnterPassword \/ ClickLoginButton \/ Login
  \/ LoginCloseErrorMessage \/ GetErrorMessageProbe \/ GetErrorMessageResume
  \/ NavigateToInventoryPage \/ AddProductToCartByName \/ RemoveProductFromCartByName
  \/ ClickProductByName \/ ClickProductImageByName \/ InventoryGetCartItemCount
  \/ ClickCartIcon \/ InventoryGetPageTitle \/ GetProductNames \/ IsCartBadgeVisible
  \/ SortProductsBy \/ OpenMenu \/ CloseMenu \/ Logout \/ ResetAppState
  \/ AddToCart \/ RemoveFromCart \/ GoBackToProducts \/ DetailGetCartItemCount
  \/ NavigateToCartPage \/ CartGetCartItemNames \/ RemoveItemByName \/ GetItemQuantity
  \/ ContinueShopping \/ ProceedToCheckout \/ CartGetCartItemCount \/ IsCartEmpty
  \/ RemoveItemByIndex \/ RemoveAllItems \/ RemoveAllItemsLoop
  \/ NavigateToCheckoutStepOne \/ EnterFirstName \/ EnterLastName \/ EnterPostalCode
  \/ FillCheckoutInformation \/ ClickContinue \/ StepOneClickCancel \/ CompleteStepOne
  \/ StepOneCloseErrorMessage
  \/ NavigateToCheckoutStepTwo \/ ClickFinish \/ StepTwoClickCancel \/ VerifyTotalCalculation
  \/ NavigateToCheckoutComplete \/ GoBackHome

Spec == Init /\ [][Next]_vars

\* Every awaited engine call of the loop of removeAllItems resolves, so a
\* turn that has been entered is completed.
SpecFair == Spec /\ WF_<<app, pc>>(RemoveAllItemsLoop)

(***************************************************************************)
(* The flow with the BasePage soft checks called on arbitrary selectors.   *)
(***************************************************************************)
ProbeSelectors ==
  {"[data-test=\"error\"]", ".shopping_cart_badge", ".inventory_item", MalformedSelector}

BasePage_isElementVisible ==
  \E sel \in ProbeSelectors : Do("BasePage.isElementVisible", sel, isElementVisible(app, sel))
BasePage_isElementEnabled ==
  \E sel \in ProbeSelectors : Do("BasePage.isElementEnabled", sel, isElementEnabled(app, sel))
BasePage_isElementDisabled ==
  \E sel \in ProbeSelectors : Do("BasePage.isElementDisabled", sel, isElementDisabled(app, sel))
BasePage_isElementChecked ==
  \E sel \in ProbeSelectors : Do("BasePage.isElementChecked", sel, isElementChecked(app, sel))
BasePage_isElementPresent ==
  \E sel \in ProbeSelectors : Do("BasePage.isElementPresent", sel, isElementPresent(app, sel))

NextProbes ==
  \/ Next
  \/ BasePage_isElementVisible \/ BasePage_isElementEnabled \/ BasePage_isElementDisabled
  \/ BasePage_isElementChecked \/ BasePage_isElementPresent

SpecProbes == Init /\ [][NextProbes]_vars

(***************************************************************************)
(* The flow on a page that a second, un-awaited flow of the test also acts *)
(* on: while getErrorMessage is suspended between its two awaits, a click  *)
(* of the other flow may reach the page.                                   *)
(***************************************************************************)
OtherFlowClicks ==
  pc.at = "read" /\
  \E sel \in {".error-button", "#login-button", "#continue"} :
    /\ app' = RunSteps(app, clickElement(sel)).app
    /\ UNCHANGED <<result, pc, peer, data>>

NextLive == Next \/ OtherFlowClicks

SpecLive == Init /\ [][NextLive]_vars

(***************************************************************************)
(* The flow with the assertion operations called on any screen, and with   *)
(* engine calls that run into their time-out: the k-th call of a composed  *)
(* operation rejects instead of acting.                                    *)
(***************************************************************************)
TimeoutAt(steps, k) == [i \in 1..Len(steps) |-> IF i = k THEN TimedOut(steps[i]) ELSE steps[i]]

VerifyOnInventoryPage ==
  Do("InventoryPage.verifyOnInventoryPage", <<>>,
     RunSteps(app, InventoryPage_verifyOnInventoryPage))
VerifyOnCartPage ==
  Do("CartPage.verifyOnCartPage", <<>>, RunSteps(app, CartPage_verifyOnCartPage))
VerifyOrderCompletion ==
  \E expected \in {<<>>, CompleteHeaderText} :
    Do("CheckoutCompletePage.verifyOrderCompletion", expected,
       RunSteps(app, CheckoutCompletePage_verifyOrderCompletion(expected, <<>>)))
VerifyOnCheckoutComplete ==
  Do("CheckoutCompletePage.verifyOnCheckoutComplete", <<>>,
     RunSteps(app, CheckoutCompletePage_verifyOnCheckoutComplete))
CompletePostOrderFlow ==
  Do("CheckoutCompletePage.completePostOrderFlow", <<>>,
     RunSteps(app, CheckoutCompletePage_completePostOrderFlow))

LoginTimesOut ==
  On("login") /\ \E u \in {validUsers.standard, invalidUsers.locked} : \E k \in 1..3 :
    Do("LoginPage.login", u,
       RunSteps(app, TimeoutAt(LoginPage_login(u.username, u.password), k)))
CompleteStepOneTimesOut ==
  On("step1") /\ \E info \in {validCheckoutInfo, invalidCheckoutInfo.missingLastName} :
    \E k \in 1..4 :
      Do("CheckoutStepOnePage.completeStepOne", info,
         RunSteps(app, TimeoutAt(CheckoutStepOnePage_completeStepOne(info), k)))
ResetAppStateTimesOut ==
  On("inventory") /\ \E k \in 1..5 :
    Do("InventoryPage.resetAppState", <<>>,
       RunSteps(app, TimeoutAt(InventoryPage_resetAppState, k)))
LogoutTimesOut ==
  On("inventory") /\ \E k \in 1..3 :
    Do("InventoryPage.logout", <<>>, RunSteps(app, TimeoutAt(InventoryPage_logout, k)))
CompletePostOrderFlowTimesOut ==
  On("complete") /\ \E k \in 1..3 :
    Do("CheckoutCompletePage.completePostOrderFlow", <<>>,
       RunSteps(app, TimeoutAt(CheckoutCompletePage_completePostOrderFlow, k)))

NextFaults ==
  \/ Next
  \/ VerifyOnInventoryPage \/ VerifyOnCartPage \/ VerifyOrderCompletion
  \/ VerifyOnCheckoutComplete \/ CompletePostOrderFlow
  \/ LoginTimesOut \/ CompleteStepOneTimesOut \/ ResetAppStateTimesOut \/ LogoutTimesOut
  \/ CompletePostOrderFlowTimesOut

SpecFaults == Init /\ [][NextFaults]_vars

(***************************************************************************)
(* Two tests running at the same time.  Each test receives its own page    *)
(* and constructs its page objects on it; an operation acts on the page    *)
(* its page object holds.  app is the page of the first test, peer.page    *)
(* the page of the second, whose operations may be issued whenever the     *)
(* first test is between two awaits.                                       *)
(***************************************************************************)
\* Mutant: every page object bound to the page of the first construction.
C18_Mut_constructor(page) == [page |-> "own"]
\* constructor(page) { this.page = page }
BasePage_constructor(page) == [page |-> page]

\* beforeEach: the page objects of a test, constructed on that test's page.
PageObjects == [own |-> BasePage_constructor("own"), peer |-> BasePage_constructor("peer")]

PageOf(obj) == IF obj.page = "own" THEN app ELSE peer.page

\* An operation of the second test, op(a) being its outcome on page a.
PeerDo(op(_)) ==
  \E obj \in {PageObjects.peer} : \E o \in {op(PageOf(obj))} :
    /\ IF obj.page = "own"
         THEN app' = o.app /\ peer' = [peer EXCEPT !.acted = TRUE]
         ELSE app' = app /\ peer' = [page |-> o.app, acted |-> TRUE]
    /\ UNCHANGED <<result, pc, data>>

PeerOn(screen) == peer.page.screen = screen

PeerNavigateToLoginPage ==
  PeerDo(LAMBDA a : RunSteps(a, LoginPage_navigateToLoginPage))
PeerLogin ==
  PeerOn("login") /\ \E u \in {validUsers.standard, invalidUsers.locked} :
    PeerDo(LAMBDA a : RunSteps(a, LoginPage_login(u.username, u.password)))
PeerAddProductToCartByName ==
  PeerOn("inventory") /\ \E n \in ListedNames :
    PeerDo(LAMBDA a : InventoryPage_addProductToCartByName(a, n))
PeerClickCartIcon ==
  PeerOn("inventory") /\ PeerDo(LAMBDA a : RunSteps(a, InventoryPage_clickCartIcon))
PeerRemoveItemByIndex ==
  PeerOn("cart") /\ PeerDo(LAMBDA a : CartPage_removeItemByIndex(a, 0))
PeerProceedToCheckout ==
  PeerOn("cart") /\ PeerDo(LAMBDA a : RunSteps(a, CartPage_proceedToCheckout))
PeerCompleteStepOne ==
  PeerOn("step1") /\ \E info \in {validCheckoutInfo, invalidCheckoutInfo.missingLastName} :
    PeerDo(LAMBDA a : RunSteps(a, CheckoutStepOnePage_completeStepOne(info)))
PeerClickFinish ==
  PeerOn("step2") /\ PeerDo(LAMBDA a : RunSteps(a, CheckoutStepTwoPage_clickFinish))

NextTwoTests ==
  \/ NavigateToLoginPage \/ Login \/ AddProductToCartByName \/ ClickCartIcon
  \/ RemoveAllItems \/ RemoveAllItemsLoop
  \/ PeerNavigateToLoginPage \/ PeerLogin \/ PeerAddProductToCartByName
  \/ PeerClickCartIcon \/ PeerRemoveItemByIndex \/ PeerProceedToCheckout
  \/ PeerCompleteStepOne \/ PeerClickFinish

SpecTwoTests == Init /\ [][NextTwoTests]_vars

(***************************************************************************)
(* The end-to-end test "should complete full user journey from login to    *)
(* checkout", statement by statement.  The test receives a new page; a     *)
(* statement that throws, or whose expect fails, ends the test.  The user, *)
(* the products to add and the checkout information are the test's data.   *)
(***************************************************************************)
JourneyTest(user, productsToAdd, info) ==
  [user |-> user, productsToAdd |-> productsToAdd, info |-> info]

\* The test as written: products.backpack and products.bikeLight for the
\* standard user with validCheckoutInfo.
FullUserJourney ==
  JourneyTest(validUsers.standard, <<allProducts[1].name, allProducts[2].name>>,
              validCheckoutInfo)

JourneyTests ==
  {JourneyTest(user, productsToAdd, info) :
     user \in {validUsers.standard, invalidUsers.locked},
     productsToAdd \in {<<allProducts[1].name, allProducts[2].name>>,
                        <<allProducts[2].name>>,
                        <<allProducts[1].name, Str("Sauce Labs")>>},
     info \in {validCheckoutInfo, invalidCheckoutInfo.missingLastName,
               invalidCheckoutInfo.missingPostalCode}}

\* for (const productName of productsToAdd) await addProductToCartByName(productName)
RECURSIVE AddEach(_, _)
AddEach(a, productsToAdd) ==
  IF productsToAdd = <<>> THEN Returned(a, <<>>, <<>>)
  ELSE With(InventoryPage_addProductToCartByName(a, Head(productsToAdd)), LAMBDA added :
         IF added.status # "ok" THEN added
         ELSE After(added, AddEach(added.app, Tail(productsToAdd))))

JourneyLength == 23

\* The k-th awaited statement of the test.
JourneyStatement(k, a, t) ==
  CASE k = 1 -> RunSteps(a, LoginPage_navigateToLoginPage)
    [] k = 2 -> RunSteps(a, LoginPage_login(t.user.username, t.user.password))
    [] k = 3 -> RunSteps(a, InventoryPage_verifyOnInventoryPage)
    [] k = 4 -> AddEach(a, t.productsToAdd)
    [] k = 5 -> InventoryPage_getCartItemCount(a)
    [] k = 6 -> RunSteps(a, InventoryPage_clickCartIcon)
    [] k = 7 -> RunSteps(a, CartPage_verifyOnCartPage)
    [] k = 8 -> CartPage_getCartItemCount(a)
    [] k = 9 -> RunSteps(a, CartPage_proceedToCheckout)
    [] k = 10 -> RunSteps(a, CheckoutStepOnePage_verifyOnCheckoutStepOne)
    [] k = 11 -> RunSteps(a, CheckoutStepOnePage_fillCheckoutInformation(t.info))
    [] k = 12 -> RunSteps(a, CheckoutStepOnePage_clickContinue)
    [] k = 13 -> RunSteps(a, CheckoutStepTwoPage_verifyOnCheckoutStepTwo)
    [] k = 14 -> CheckoutStepTwoPage_getCartItemCount(a)
    [] k = 15 -> CheckoutStepTwoPage_verifyTotalCalculation(a)
    [] k = 16 -> RunSteps(a, CheckoutStepTwoPage_clickFinish)
    [] k = 17 -> RunSteps(a, CheckoutCompletePage_verifyOnCheckoutComplete)
    [] k = 18 -> CheckoutCompletePage_isOrderComplete(a)
    [] k = 19 -> CheckoutCompletePage_getCompleteHeader(a)
    [] k = 20 -> RunSteps(a, CheckoutCompletePage_goBackHome)
    [] k = 21 -> RunSteps(a, InventoryPage_verifyOnInventoryPage)
    [] k = 22 -> RunSteps(a, InventoryPage_logout)
    [] OTHER -> Returned(a, a.screen = ScreenAt(URLS.login), <<>>)

\* The expect(...) that follows the k-th statement, on what it returned.
JourneyExpect(k, value, t) ==
  CASE k = 5 -> value = Number(Len(t.productsToAdd))
    [] k \in {8, 14} -> value = Len(t.productsToAdd)
    [] k \in {15, 18, 23} -> value = TRUE
    [] k = 19 -> Contains(value, Str("Thank you"))
    [] OTHER -> TRUE

\* test(...) is started: beforeEach constructs the page objects on a new page.
JourneyStarts ==
  /\ pc = Idle
  /\ \E t \in JourneyTests :
       /\ pc' = [at |-> "test", step |-> 1, test |-> t]
       /\ result' = Result("journey", [step |-> 0, test |-> t], Returned(FreshPage, <<>>, <<>>))
  /\ app' = FreshPage
  /\ peer' = Own(peer)
  /\ data' = data

\* The next statement of the test is executed and awaited.
JourneyStep ==
  /\ pc.at = "test"
  /\ \E out \in {JourneyStatement(pc.step, app, pc.test)} :
       \E passed \in {out.status = "ok" /\ JourneyExpect(pc.step, out.value, pc.test)} :
         /\ app' = out.app
         /\ result' = Result("journey", [step |-> pc.step, test |-> pc.test],
                             IF out.status = "ok" /\ ~passed
                               THEN Threw(out.app, "assertion", out.calls) ELSE out)
         /\ pc' = IF passed /\ pc.step < JourneyLength
                    THEN [pc EXCEPT !.step = @ + 1] ELSE Idle
  /\ peer' = Own(peer)
  /\ data' = data

NextJourney == JourneyStarts \/ JourneyStep

SpecJourney == Init /\ [][NextJourney]_vars

(***************************************************************************)
(* Tests that call the data helpers between the page-object operations of  *)
(* the end-to-end test.                                                    *)
(***************************************************************************)
\* Largest count asked of getRandomProducts.
MaxCount == 2

\* A sort with a random comparator can leave any rearrangement; the ones
\* tried are the exchanges of two positions (the identity among them), the
\* rotations and the reversal.
Exchange(n, i, j) == [k \in 1..n |-> IF k = i THEN j ELSE IF k = j THEN i ELSE k]
Rotation(n, r) == [k \in 1..n |-> ((k - 1 + r) % n) + 1]
Reversal(n) == [k \in 1..n |-> n + 1 - k]
Orders(n) ==
  {Exchange(n, i, j) : i, j \in 1..n} \cup {Rotation(n, r) : r \in 0..(n - 1)} \cup {Reversal(n)}
Shuffles == Orders(Len(allProducts))

\* A helper is an ordinary call: it returns before the next statement.
DataCall(op, arg, out) ==
  /\ pc = Idle
  /\ data' = out.data
  /\ result' = Result(op, arg, Returned(app, out.value, <<>>))
  /\ UNCHANGED <<app, pc, peer>>

GetRandomProduct ==
  \E random \in 0..(Len(ProductKeys) - 1) :
    DataCall("getRandomProduct", <<>>, getRandomProduct(data, random))
GetRandomProducts ==
  \E count \in 0..MaxCount, order \in Shuffles :
    DataCall("getRandomProducts", count, getRandomProducts(data, count, order))
GetProductByName ==
  \E name \in {p.name : p \in {allProducts[i] : i \in 1..Len(allProducts)}}
               \cup {Str("sauce labs backpack")} :
    DataCall("getProductByName", name, getProductByName(data, name))
GetRandomCheckoutInfo ==
  \E random \in 0..(Len(checkoutTestData) - 1) :
    DataCall("getRandomCheckoutInfo", <<>>, getRandomCheckoutInfo(data, random))
GetCheckoutInfoWithMissingField ==
  \E missingField \in MissingFields :
    DataCall("getCheckoutInfoWithMissingField", missingField,
             getCheckoutInfoWithMissingField(data, missingField))
GetValidUser ==
  \E type \in DOMAIN validUsers : DataCall("getValidUser", type, getValidUser(data, type))
GetInvalidUser ==
  \E type \in DOMAIN invalidUsers : DataCall("getInvalidUser", type, getInvalidUser(data, type))

NextData ==
  \/ GetRandomProduct \/ GetRandomProducts \/ GetProductByName
  \/ GetRandomCheckoutInfo \/ GetCheckoutInfoWithMissingField
  \/ GetValidUser \/ GetInvalidUser
  \/ JourneyStarts \/ JourneyStep

SpecData == Init /\ [][NextData]_vars

(***************************************************************************)
(* removeAllItems on a store that takes its time over a removal: a click   *)
(* on a Remove button of the cart marks the line, and the line leaves the  *)
(* page when the store gets to it, before or after the 300 ms of the       *)
(* settle wait are over.  The loop is followed await by await.             *)
(***************************************************************************)
\* Most Remove clicks followed in one removeAllItems.
MaxTurns == 3

RemoveClicks(calls) == SelectSeq(calls, LAMBDA c : c.call = "click")

\* The page after a click whose removal the store has yet to carry out.
Deferred(a, clicked) ==
  [a EXCEPT !.pending =
     @ \cup ({a.cart[i] : i \in 1..Len(a.cart)}
               \ {clicked.app.cart[i] : i \in 1..Len(clicked.app.cart)})]

\* await this.removeItemByIndex(0)
RemoveFirstItem ==
  /\ pc.at = "loop"
  /\ Len(RemoveClicks(result.calls)) < MaxTurns
  /\ \E removed \in {CartPage_removeItemByIndex(app, 0)} :
       IF removed.status = "ok"
         THEN /\ app' = Deferred(app, removed)
              /\ pc' = [pc EXCEPT !.at = "settle"]
              /\ result' = [result EXCEPT !.calls = @ \o removed.calls]
         ELSE /\ app' = app
              /\ pc' = Idle
              /\ result' = Result(pc.op, <<>>, [removed EXCEPT !.calls = result.calls \o @])
  /\ peer' = Own(peer)
  /\ data' = data

\* await this.waitForTimeout(300); itemCount = await this.getCartItemCount()
SettleAndCount ==
  /\ pc.at = "settle"
  /\ \E counted \in {After(RunSteps(app, waitForTimeout(300)), CartPage_getCartItemCount(app))} :
       IF counted.status = "ok" /\ counted.value > 0
         THEN /\ pc' = [pc EXCEPT !.at = "loop"]
              /\ result' = [result EXCEPT !.calls = @ \o counted.calls]
         ELSE /\ pc' = Idle
              /\ result' = Result(pc.op, <<>>,
                                  [counted EXCEPT !.value = <<>>, !.calls = result.calls \o @])
  /\ app' = app
  /\ peer' = Own(peer)
  /\ data' = data

\* The store carries out a removal it was asked for.
StoreRemoves ==
  /\ \E name \in app.pending :
       app' = [app EXCEPT !.cart = Without(@, name), !.pending = @ \ {name}]
  /\ UNCHANGED <<result, pc, peer, data>>

NextSlowStore ==
  \/ NavigateToLoginPage \/ Login \/ AddProductToCartByName \/ ClickCartIcon
  \/ RemoveAllItems \/ RemoveFirstItem \/ SettleAndCount \/ StoreRemoves

SpecSlowStore == Init /\ [][NextSlowStore]_vars

(***************************************************************************)
(* verifyTotalCalculation on overviews of a store whose displayed total    *)
(* may be off by a few cents: the cases the operation exists to detect.    *)
(***************************************************************************)
MaxSkew == 2

\* Carts of one or two different products of the catalogue.
OverviewCarts ==
  {<<allProducts[i].name>> : i \in 1..Len(allProducts)}
  \cup {<<allProducts[p[1]].name, allProducts[p[2]].name>> :
          p \in {q \in (1..Len(allProducts)) \X (1..Len(allProducts)) : q[1] # q[2]}}

OverviewDisplayed ==
  /\ pc = Idle
  /\ \E cart \in OverviewCarts : \E skew \in (-MaxSkew)..MaxSkew :
       \E overview \in {[FreshPage EXCEPT !.screen = "step2", !.loggedIn = TRUE,
                                           !.cart = cart, !.skew = skew]} :
         /\ app' = overview
         /\ result' = Result("new", <<>>, Returned(overview, <<>>, <<>>))
  /\ pc' = pc
  /\ peer' = Own(peer)
  /\ data' = data

NextTotals == OverviewDisplayed \/ VerifyTotalCalculation

SpecTotals == Init /\ [][NextTotals]_vars

(***************************************************************************)
(* helpers.ts: retry(fn, maxAttempts, delay).  The helper is suspended     *)
(* while fn's promise or the sleep between two attempts is pending; fn     *)
(* resolves with a value or rejects with a reason of its choosing.         *)
(* maxAttempts is a number: it is counted in halves, so that values        *)
(* between two integers occur.  The log lists fn's calls and the sleeps.   *)
(***************************************************************************)
MaxAttempts == 3
MaxAttemptsValues == (-2)..(2 * MaxAttempts + 1)
DefaultDelay == 1000

\* What fn may resolve with, and what it may reject with: errors, or the
\* reason of a bare Promise.reject().
FnValues == {"first value", "second value"}
FnReasons == {"Error: first", "Error: second", Undefined}

\* ToBoolean of a rejection reason.
Truthy(reason) == reason # Undefined

\* let lastError: Error | undefined; attempt = 1
retry_enter(maxAttempts) ==
  [maxAttempts |-> maxAttempts, attempt |-> 1, lastError |-> Undefined, log |-> <<>>]

\* The loop that makes its first attempt before it tests the bound.
C30_Mut_retry_continues(r) == r.attempt = 1 \/ 2 * r.attempt <= r.maxAttempts
\* attempt <= maxAttempts
retry_continues(r) == 2 * r.attempt <= r.maxAttempts

\* attempt < maxAttempts
retry_sleeps(r) == 2 * r.attempt < r.maxAttempts

\* throw lastError || new Error('Retry failed')
retry_throws(r) == IF Truthy(r.lastError) THEN r.lastError ELSE "Error: Retry failed"

\* The head of the for loop: the next attempt is made, or the loop is left
\* and the helper throws.
retry_loop(r) ==
  IF retry_continues(r)
    THEN /\ pc' = [at |-> "fn", retry |-> r]
         /\ result' = Result("retry", r.maxAttempts, Out(app, "pending", "none", <<>>, r.log))
    ELSE /\ pc' = Idle
         /\ result' = Result("retry", r.maxAttempts, Threw(app, retry_throws(r), r.log))

Retry ==
  /\ pc = Idle
  /\ \E maxAttempts \in MaxAttemptsValues : retry_loop(retry_enter(maxAttempts))
  /\ app' = app
  /\ peer' = Own(peer)
  /\ data' = data

\* return await fn()
RetryFnResolves ==
  /\ pc.at = "fn"
  /\ \E value \in FnValues :
       result' = Result("retry", pc.retry.maxAttempts,
                        Returned(app, value,
                                 Append(pc.retry.log, Call("fn", value, pc.retry.attempt, TRUE))))
  /\ pc' = Idle
  /\ app' = app
  /\ peer' = Own(peer)
  /\ data' = data

\* catch (error) { lastError = error; if (attempt < maxAttempts) await sleep(delay) }
RetryFnRejects ==
  /\ pc.at = "fn"
  /\ \E reason \in FnReasons :
       \E r \in {[pc.retry EXCEPT !.lastError = reason,
                    !.log = Append(@, Call("fn", reason, pc.retry.attempt, FALSE))]} :
         IF retry_sleeps(r)
           THEN /\ pc' = [at |-> "sleep", retry |-> r]
                /\ result' = Result("retry", r.maxAttempts,
                                    Out(app, "pending", "none", <<>>, r.log))
           ELSE retry_loop([r EXCEPT !.attempt = @ + 1])
  /\ app' = app
  /\ peer' = Own(peer)
  /\ data' = data

\* The timer of sleep(delay) fires; attempt++ and the loop is tested again.
RetrySleepResolves ==
  /\ pc.at = "sleep"
  /\ retry_loop([pc.retry EXCEPT !.attempt = @ + 1,
                   !.log = Append(@, Call("sleep", "", DefaultDelay, TRUE))])
  /\ app' = app
  /\ peer' = Own(peer)
  /\ data' = data

NextRetry == Retry \/ RetryFnResolves \/ RetryFnRejects \/ RetrySleepResolves

SpecRetry == Init /\ [][NextRetry]_vars

(***************************************************************************)
(* Properties                                                              *)
(***************************************************************************)
ErrorBanner == "[data-test=\"error\"]"

\* Position of a screen along the checkout flow; 0 for a screen before it.
Rank(screen) ==
  CASE screen = "step1" -> 1 [] screen = "step2" -> 2 [] screen = "complete" -> 3
    [] OTHER -> 0

Advances == Rank(app'.screen) > Rank(app.screen)

Filled(info) == info.firstName # <<>> /\ info.lastName # <<>> /\ info.postalCode # <<>>

GatingAction ==
  \/ /\ app.screen = "cart" /\ app'.screen = "step1"
     /\ result'.op = "CartPage.proceedToCheckout"
  \/ /\ app.screen = "step1" /\ app'.screen = "step2"
     /\ \/ result'.op = "CheckoutStepOnePage.clickContinue" /\ Filled(app)
        \/ result'.op = "CheckoutStepOnePage.completeStepOne" /\ Filled(result'.arg)
  \/ /\ app.screen = "step2" /\ app'.screen = "complete"
     /\ result'.op = "CheckoutStepTwoPage.clickFinish"

DirectNavigation ==
  result'.op \in {"BasePage.goto",
                  "CheckoutStepOnePage.navigateToCheckoutStepOne",
                  "CheckoutStepTwoPage.navigateToCheckoutStepTwo",
                  "CheckoutCompletePage.navigateToCheckoutComplete"}

LoginSubmitted ==
  /\ app.screen = "login"
  /\ result'.op \in {"LoginPage.login", "LoginPage.clickLoginButton"}
  /\ result'.status = "ok"

SubmittedCredentials ==
  IF result'.op = "LoginPage.login" THEN result'.arg ELSE User(app.username, app.password)

CaseMessage(c) ==
  CASE c.username = <<>> -> Str("Epic sadface: Username is required")
    [] c.username # <<>> /\ c.password = <<>> -> Str("Epic sadface: Password is required")
    [] c.username # <<>> /\ c.password # <<>> /\ c = invalidUsers.locked ->
         Str("Epic sadface: Sorry, this user has been locked out.")
    [] OTHER ->
         Str("Epic sadface: Username and password do not match any user in this service")

\* C2: a login submission with credentials outside the valid set leaves the
\* session on the login screen with the error banner visible, and
\* getErrorMessage returns exactly the literal of the case: username
\* required (empty username, also with an empty password), password
\* required (empty password only), locked out, no match.
C2_InvalidLoginShowsCaseMessage ==
  [][LoginSubmitted /\ SubmittedCredentials \notin ValidUserSet =>
       /\ app'.screen = "login"
       /\ LoginPage_isErrorMessageVisible(app').value
       /\ LoginPage_getErrorMessage(app').status = "ok"
       /\ LoginPage_getErrorMessage(app').value = CaseMessage(SubmittedCredentials)]_vars

C2_Witness ==
  /\ result.op = "LoginPage.login"
  /\ result.arg = invalidUsers.locked
  /\ result.status = "ok"
  /\ app.screen = "login"
  /\ app.error = ERROR_MESSAGES.lockedOut

\* C3: login(username, password) with any user of the valid set, called on
\* the login screen, ends on the inventory screen, where
\* InventoryPage.getPageTitle returns "Products".
C3_ValidLoginReachesProducts ==
  [][/\ app.screen = "login"
     /\ result'.op = "LoginPage.login"
     /\ result'.arg \in ValidUserSet
     => /\ result'.status = "ok"
        /\ app'.screen = "inventory"
        /\ InventoryPage_getPageTitle(app').status = "ok"
        /\ InventoryPage_getPageTitle(app').value = Str("Products")]_vars

C3_Witness ==
  /\ result.op = "LoginPage.login"
  /\ result.arg = validUsers.visual
  /\ result.status = "ok"
  /\ app.screen = "inventory"

ExactlyOneEmpty(info) ==
  Cardinality({f \in {"firstName", "lastName", "postalCode"} : info[f] = <<>>}) = 1

RequiredMessage(info) ==
  CASE info.firstName = <<>> -> Str("Error: First Name is required")
    [] info.lastName = <<>> -> Str("Error: Last Name is required")
    [] OTHER -> Str("Error: Postal Code is required")

\* C4: on step one, completeStepOne with an information record in which
\* exactly one of the three fields is empty leaves the session on step one
\* with the error banner visible and reading that field's required message;
\* step two is not displayed.
C4_MissingFieldBlocksStepTwo ==
  [][/\ app.screen = "step1"
     /\ result'.op = "CheckoutStepOnePage.completeStepOne"
     /\ ExactlyOneEmpty(result'.arg)
     => /\ result'.status = "ok"
        /\ app'.screen = "step1"
        /\ CheckoutStepOnePage_isErrorMessageVisible(app').value
        /\ CheckoutStepOnePage_getErrorMessage(app').value = RequiredMessage(result'.arg)]_vars

C4_Witness ==
  /\ result.op = "CheckoutStepOnePage.completeStepOne"
  /\ result.arg.firstName # <<>> /\ result.arg.lastName = <<>> /\ result.arg.postalCode # <<>>
  /\ app.screen = "step1"
  /\ app.error = ERROR_MESSAGES.lastNameRequired

Range(seq) == {seq[i] : i \in 1..Len(seq)}

\* What a test reads: the badge count on the inventory screen, and the cart
\* listing after a click on the cart icon.
BadgeCount(a) == InventoryPage_getCartItemCount(a)
CartListing(a) == CartPage_getCartItemNames(RunSteps(a, InventoryPage_clickCartIcon).app).value

AddedByName ==
  /\ app.screen = "inventory"
  /\ result'.op = "InventoryPage.addProductToCartByName"
  /\ result'.status = "ok"

RemovedByName ==
  /\ app.screen = "inventory"
  /\ result'.op = "InventoryPage.removeProductFromCartByName"
  /\ result'.status = "ok"

\* C5: on the inventory screen getCartItemCount returns the number of
\* products the cart lists; a successful add by name raises it by exactly
\* one and puts the name in the cart listing, a successful removal by name
\* lowers it by exactly one and the cart listing read by
\* CartPage.getCartItemNames no longer contains the removed name.
C5_BadgeCountsCart ==
  [][app'.screen = "inventory" =>
       /\ BadgeCount(app').status = "ok"
       /\ BadgeCount(app').value = Number(Len(CartListing(app')))
       /\ AddedByName =>
            /\ BadgeCount(app').value.n = BadgeCount(app).value.n + 1
            /\ result'.arg \in Range(CartListing(app'))
       /\ RemovedByName =>
            /\ BadgeCount(app').value.n = BadgeCount(app).value.n - 1
            /\ result'.arg \notin Range(CartListing(app'))]_vars

\* Two products added, one of them removed again.
C5_Witness ==
  /\ result.op = "InventoryPage.removeProductFromCartByName"
  /\ result.status = "ok"
  /\ app.screen = "inventory"
  /\ Len(app.cart) = 1
  /\ app.cart[1] = Listed[2].name

\* C6: on step two with a non-empty cart, verifyTotalCalculation returns
\* true: the displayed total is the displayed item subtotal plus the
\* displayed tax, within the tolerance.
C6_TotalIsSubtotalPlusTax ==
  app.screen = "step2" /\ app.cart # <<>> =>
    /\ CheckoutStepTwoPage_verifyTotalCalculation(app).status = "ok"
    /\ CheckoutStepTwoPage_verifyTotalCalculation(app).value = TRUE

C6_Witness ==
  /\ result.op = "CheckoutStepTwoPage.verifyTotalCalculation"
  /\ result.status = "ok"
  /\ result.value = TRUE
  /\ Len(app.cart) = NumProducts

NoClick(calls) == \A i \in 1..Len(calls) : calls[i].call # "click"

TitlesListed(a) == Range(InventoryPage_getProductNames(a).value)

\* C7: addProductToCartByName and removeProductFromCartByName, called on
\* the inventory screen with a name that is the trimmed title of no listed
\* product, throw the not-found error without issuing a click and leave the
\* page, so the cart and the badge, as they were.
C7_UnknownNameFailsWithoutClick ==
  [][/\ app.screen = "inventory"
     /\ result'.op \in {"InventoryPage.addProductToCartByName",
                        "InventoryPage.removeProductFromCartByName"}
     /\ result'.arg \notin TitlesListed(app)
     => /\ result'.status = "error"
        /\ result'.err = "not-found"
        /\ NoClick(result'.calls)
        /\ app' = app
        /\ BadgeCount(app') = BadgeCount(app)]_vars

C7_Witness ==
  /\ result.op = "InventoryPage.addProductToCartByName"
  /\ result.arg = <<WS>> \o Listed[1].name
  /\ result.err = "not-found"
  /\ app.cart = << Listed[2].name >>

\* A by-name operation called on its screen with a name no line carries.
ClickByNameOps ==
  {"InventoryPage.addProductToCartByName", "InventoryPage.removeProductFromCartByName",
   "InventoryPage.clickProductByName", "InventoryPage.clickProductImageByName"}

NoSuchLine ==
  \/ /\ app.screen = "inventory"
     /\ result'.op \in ClickByNameOps
     /\ result'.arg \notin TitlesListed(app)
  \/ /\ app.screen = "cart"
     /\ result'.op \in {"CartPage.removeItemByName", "CartPage.getItemQuantity"}
     /\ result'.arg \notin Range(CartPage_getCartItemNames(app).value)

RaisedNotFound == result'.status = "error" /\ result'.err = "not-found"

\* C8 as stated: each of the six by-name operations (the four of the
\* inventory screen, CartPage.removeItemByName and CartPage.getItemQuantity)
\* throws the not-found error when no line has the name; none returns.
C8_EveryByNameOperationRaises == [][NoSuchLine => RaisedNotFound]_vars

\* C8 amended: the five by-name operations that click (the four of the
\* inventory screen and CartPage.removeItemByName) throw the not-found error
\* when no line has the name; CartPage.getItemQuantity returns 0 then.
C8_ClickByNameRaisesQuantityIsZero ==
  [][NoSuchLine =>
       IF result'.op = "CartPage.getItemQuantity"
         THEN result'.status = "ok" /\ result'.value = Number(0)
         ELSE RaisedNotFound]_vars

C8_Witness ==
  /\ result.op = "CartPage.removeItemByName"
  /\ result.arg \in UnknownNames
  /\ result.err = "not-found"
  /\ app.screen = "cart"
  /\ app.cart # <<>>

SoftChecks ==
  {"BasePage.isElementVisible", "BasePage.isElementEnabled", "BasePage.isElementDisabled",
   "BasePage.isElementChecked", "BasePage.isElementPresent"}

EngineRaised(calls) == calls # <<>> /\ ~calls[Len(calls)].ok

\* C9: each of the five soft checks returns; when the engine call under it
\* raised, it returns false.
C9_SoftChecksNeverPropagate ==
  result.op \in SoftChecks =>
    /\ result.status = "ok"
    /\ EngineRaised(result.calls) => result.value = FALSE

\* isElementPresent on a selector the engine rejects.
C9_Witness ==
  /\ result.op = "BasePage.isElementPresent"
  /\ result.arg = MalformedSelector
  /\ result.status = "error"
  /\ EngineRaised(result.calls)

\* C10: a completed getErrorMessage of either screen has returned: '' when
\* it saw no banner, the banner's trimmed text otherwise.
C10_GetErrorMessageNeverFails ==
  result.op \in ErrorMessageOps /\ pc = Idle =>
    /\ result.status = "ok"
    /\ result.value \in {<<>>, Trim(app.error)}

\* The banner was visible to the probe and gone when the text was read.
C10_Witness ==
  /\ result.op \in ErrorMessageOps
  /\ pc = Idle
  /\ result.status = "error"
  /\ result.calls = << Call("isVisible", ErrorBanner, 0, TRUE),
                       Call("textContent", ErrorBanner, 0, FALSE) >>

OkCall(call, sel) == Call(call, sel, 0, TRUE)
FailedCall(call, sel) == Call(call, sel, 0, FALSE)

IsPrefix(s, t) == Len(s) <= Len(t) /\ SubSeq(t, 1, Len(s)) = s

\* The calls of a failed operation: those of the written sequence up to the
\* first one that raised, that one marked as failed, none after it.
FailedPrefix(calls, written) ==
  /\ calls # <<>>
  /\ Len(calls) <= Len(written)
  /\ \A i \in 1..Len(calls) :
       calls[i] = [written[i] EXCEPT !.ok = (i < Len(calls))]

NoCallTwice(calls) == \A i, j \in 1..Len(calls) : calls[i] = calls[j] => i = j

LoginCalls ==
  << OkCall("fill", "#user-name"), OkCall("fill", "#password"),
     OkCall("click", "#login-button") >>

LoginCalled == app.screen = "login" /\ result'.op = "LoginPage.login"

\* The form with the first n fills of login(u) typed in.
FormAfter(a, u, n) ==
  [a EXCEPT !.username = IF n >= 1 THEN u.username ELSE @,
            !.password = IF n >= 2 THEN u.password ELSE @]

\* C11 as stated: login(username, password) either issues its three steps
\* with effect, or fails and leaves the login form as it was before the
\* call; no step is issued twice.
C11_LoginAllOrNothing ==
  [][LoginCalled =>
       /\ NoCallTwice(result'.calls)
       /\ \/ result'.status = "ok" /\ result'.calls = LoginCalls
          \/ result'.status = "error" /\ app' = app]_vars

\* C11 amended: login issues fill-username, fill-password, click-submit once
\* each in that order; either all three take effect, or the call fails at
\* the first step that raises: the fills before it stay typed in the form
\* (the form is not restored) and no later step is issued.
C11_LoginStopsAtFirstFailure ==
  [][LoginCalled =>
       /\ NoCallTwice(result'.calls)
       /\ \/ /\ result'.status = "ok"
             /\ result'.calls = LoginCalls
             /\ app' = AppLoginSubmit(FormAfter(app, result'.arg, 2))
          \/ /\ result'.status = "error"
             /\ FailedPrefix(result'.calls, LoginCalls)
             /\ app' = FormAfter(app, result'.arg, Len(result'.calls) - 1)]_vars

\* The click timed out after both fills: the call failed and the form holds
\* the credentials it did not hold before.
C11_Witness ==
  /\ result.op = "LoginPage.login"
  /\ result.status = "error"
  /\ Len(result.calls) = 3
  /\ result.arg = invalidUsers.locked
  /\ app.screen = "login"
  /\ User(app.username, app.password) = invalidUsers.locked
  /\ app.error = <<>>

\* The engine calls of an operation that raised.
Raised(calls) == {i \in 1..Len(calls) : ~calls[i].ok}

RaisedKind(call) == IF call.call \in ExpectCalls THEN "assertion" ELSE "engine"

\* C12: an operation in which an engine call or an assertion raised has
\* thrown that failure to its caller: the call that raised is the last one
\* the operation issued (it was not issued again and no later step was
\* issued), and the error thrown is the one raised, an assertion failure
\* for an expect call and the engine's error otherwise; an operation that
\* found no product or index has thrown as well.
C12_FailuresPropagate ==
  /\ Raised(result.calls) # {} =>
       /\ result.status = "error"
       /\ Raised(result.calls) = {Len(result.calls)}
       /\ result.err = RaisedKind(result.calls[Len(result.calls)])
  /\ result.status = "error" /\ Raised(result.calls) = {} =>
       result.err \in {"not-found", "out-of-range"}

\* resetAppState whose click on the reset link timed out: thrown to the
\* caller with the menu left open, the close-menu steps not issued.
C12_Witness ==
  /\ result.op = "InventoryPage.resetAppState"
  /\ result.status = "error"
  /\ result.err = "engine"
  /\ result.calls = << OkCall("click", "#react-burger-menu-btn"),
                       OkCall("waitFor", "#logout_sidebar_link"),
                       FailedCall("click", "#reset_sidebar_link") >>
  /\ app.menu
  /\ app.cart # <<>>

RemoveAllItemsOnCart == result.op = "CartPage.removeAllItems" /\ app.screen = "cart"

Emptied ==
  /\ result.status = "ok"
  /\ CartPage_getCartItemCount(app).value = 0
  /\ CartPage_isCartEmpty(app).value = TRUE

\* C13: removeAllItems started on the cart screen, whatever the number of
\* cart lines, eventually returns, and whenever it has returned
\* CartPage.getCartItemCount reads 0 and isCartEmpty reads true.
C13_RemoveAllItemsReturnsEmpty ==
  /\ [](RemoveAllItemsOnCart /\ pc = Idle => Emptied)
  /\ (RemoveAllItemsOnCart /\ pc.at = "loop") ~> (RemoveAllItemsOnCart /\ pc = Idle /\ Emptied)

\* Returned after one turn for every product of the store.
C13_Witness ==
  /\ RemoveAllItemsOnCart
  /\ pc = Idle
  /\ result.status = "ok"
  /\ Len(result.calls) = 1 + 4 * NumProducts
  /\ app.cart = <<>>

Protected == {"inventory", "detail", "cart", "step1", "step2", "complete"}

\* C14: a session that is not logged in never displays a protected screen:
\* BasePage.goto of any URL by a session that is not logged in ends on the
\* login screen, InventoryPage.logout ends the session on the login screen,
\* and goto of the cart URL by a logged-in session displays the cart.
C14_ProtectedScreensNeedLogin ==
  /\ [](~app.loggedIn => app.screen \notin Protected)
  /\ [][ /\ result'.op = "BasePage.goto" /\ result'.status = "ok" /\ ~app.loggedIn
              => app'.screen = "login" /\ ~app'.loggedIn
         /\ result'.op = "InventoryPage.logout" /\ result'.status = "ok"
              => app'.screen = "login" /\ ~app'.loggedIn
         /\ result'.op = "BasePage.goto" /\ result'.status = "ok" /\ app.loggedIn
              /\ result'.arg = URLS.cart
              => app'.screen = "cart" /\ app'.loggedIn ]_vars

\* The inventory URL requested after a logout (the cart filled before it is
\* still there): the login screen is displayed.
C14_Witness ==
  /\ result.op = "BasePage.goto"
  /\ result.arg = URLS.inventory
  /\ result.status = "ok"
  /\ ~app.loggedIn
  /\ app.screen = "login"
  /\ app.cart # <<>>

InCheckout(a) == a.screen \in {"step1", "step2"}

\* C15: clickCancel on checkout step one displays the cart screen and
\* clickCancel on checkout step two displays the inventory screen, both with
\* the cart as it was; and no operation called between the start of the
\* checkout and the cancel changes the cart, so it holds the items it held
\* when the checkout was started.
C15_CancelKeepsCart ==
  [][ /\ On("step1") /\ result'.op = "CheckoutStepOnePage.clickCancel"
           /\ result'.status = "ok"
           => app'.screen = "cart" /\ app'.cart = app.cart
      /\ On("step2") /\ result'.op = "CheckoutStepTwoPage.clickCancel"
           /\ result'.status = "ok"
           => app'.screen = "inventory" /\ app'.cart = app.cart
      /\ InCheckout(app) /\ InCheckout(app') => app'.cart = app.cart ]_vars

\* The overview of a two-item order cancelled: inventory screen, both items
\* still in the cart.
C15_Witness ==
  /\ result.op = "CheckoutStepTwoPage.clickCancel"
  /\ result.status = "ok"
  /\ app.screen = "inventory"
  /\ Len(app.cart) = 2

ScreenOnlyOps ==
  {"InventoryPage.clickProductByName", "ProductDetailPage.goBackToProducts",
   "InventoryPage.clickCartIcon", "CartPage.continueShopping",
   "CartPage.proceedToCheckout", "BasePage.reload"}

\* C16: an operation that only changes the displayed screen leaves the cart
\* and the session as they were: the cart item names and the badge count
\* read after it equal those read before it, and a logged-in session is
\* still logged in.
C16_ScreenOnlyOpsKeepCart ==
  [][ result'.op \in ScreenOnlyOps =>
        /\ app'.cart = app.cart
        /\ app'.loggedIn = app.loggedIn
        /\ CartListing(app') = CartListing(app)
        /\ BadgeCount(app').value = BadgeCount(app).value ]_vars

\* Back on the inventory from the page of a product, two items in the cart.
C16_Witness ==
  /\ result.op = "ProductDetailPage.goBackToProducts"
  /\ result.status = "ok"
  /\ app.screen = "inventory"
  /\ app.loggedIn
  /\ BadgeCount(app).value = Number(2)

ResetReturned ==
  /\ On("inventory")
  /\ app.loggedIn
  /\ result'.op = "InventoryPage.resetAppState"
  /\ result'.status = "ok"

\* C17: resetAppState called on the inventory screen of a logged-in session,
\* whatever the cart holds, leaves the cart count 0, the badge not visible and
\* the menu closed; resetAppState applied to that state returns and leaves it
\* as it is.
C17_ResetEmptiesCartIdempotent ==
  [][ ResetReturned =>
        /\ InventoryPage_getCartItemCount(app').value = Number(0)
        /\ InventoryPage_isCartBadgeVisible(app').value = FALSE
        /\ ~app'.menu
        /\ \E again \in {RunSteps(app', InventoryPage_resetAppState)} :
             again.status = "ok" /\ again.app = app' ]_vars

\* resetAppState returned after its five engine calls, on the inventory screen.
C17_Witness ==
  /\ result.op = "InventoryPage.resetAppState"
  /\ result.status = "ok"
  /\ Len(result.calls) = Len(InventoryPage_resetAppState)
  /\ app.screen = "inventory"
  /\ app.cart = <<>>
  /\ ~app.menu

\* The engine calls of the four composed operations, in the order in which
\* their bodies are written.
WrittenOrder ==
  [login |->
     << OkCall("fill", "#user-name"), OkCall("fill", "#password"),
        OkCall("click", "#login-button") >>,
   completeStepOne |->
     << OkCall("fill", "#first-name"), OkCall("fill", "#last-name"),
        OkCall("fill", "#postal-code"), OkCall("click", "#continue") >>,
   resetAppState |->
     << OkCall("click", "#react-burger-menu-btn"), OkCall("waitFor", "#logout_sidebar_link"),
        OkCall("click", "#reset_sidebar_link"),
        OkCall("click", "#react-burger-cross-btn"), OkCall("waitFor", "#logout_sidebar_link") >>,
   completePostOrderFlow |->
     << OkCall("toBeVisible", ".complete-header"), OkCall("toBeVisible", ".complete-text"),
        OkCall("click", "#back-to-products") >>]

InWrittenOrder(written) ==
  \/ result.status = "ok" /\ result.calls = written
  \/ result.status = "error" /\ FailedPrefix(result.calls, written)

\* C19: a composed operation issues its engine calls in the order written:
\* login fills the username, fills the password, clicks submit;
\* completeStepOne fills first name, last name, postal code, clicks continue;
\* resetAppState opens the menu, clicks reset, closes the menu;
\* completePostOrderFlow expects the header and the text, then clicks
\* back-home.  A call is issued only when every call before it has completed.
C19_CallsInWrittenOrder ==
  /\ result.op = "LoginPage.login" => InWrittenOrder(WrittenOrder.login)
  /\ result.op = "CheckoutStepOnePage.completeStepOne"
       => InWrittenOrder(WrittenOrder.completeStepOne)
  /\ result.op = "InventoryPage.resetAppState" => InWrittenOrder(WrittenOrder.resetAppState)
  /\ result.op = "CheckoutCompletePage.completePostOrderFlow"
       => InWrittenOrder(WrittenOrder.completePostOrderFlow)

\* completePostOrderFlow returned on the inventory screen after its two
\* expectations and the click.
C19_Witness ==
  /\ result.op = "CheckoutCompletePage.completePostOrderFlow"
  /\ result.status = "ok"
  /\ Len(result.calls) = 3
  /\ result.calls[3] = OkCall("click", "#back-to-products")
  /\ app.screen = "inventory"

\* The reference ordering, restricted to the products the store lists.
ListedIn(reference) == SelectSeq(reference, LAMBDA name : name \in ListedNames)

SortReturned(option) ==
  /\ On("inventory")
  /\ result'.op = "InventoryPage.sortProductsBy"
  /\ result'.arg = option
  /\ result'.status = "ok"

\* The whole catalogue, in whatever order an option has left it, comes out
\* of the store's sort by name in the reference ordering.
WholeCatalogSorted ==
  \A o \in SortOption :
    \E before \in {AppSort(o, [i \in 1..Len(allProducts) |-> allProducts[i].name])} :
      /\ AppSort(sortOptions.nameAZ, before) = productNamesAZ
      /\ AppSort(sortOptions.nameZA, before) = productNamesZA

\* C20: whatever the ordering displayed before, after sortProductsBy('az')
\* getProductNames returns the products in the A-to-Z reference ordering
\* productNamesAZ, and after sortProductsBy('za') in the reverse ordering
\* productNamesZA.
C20_SortByNameIsReferenceOrder ==
  [][ /\ WholeCatalogSorted
      /\ SortReturned(sortOptions.nameAZ) =>
           InventoryPage_getProductNames(app').value = ListedIn(productNamesAZ)
      /\ SortReturned(sortOptions.nameZA) =>
           InventoryPage_getProductNames(app').value = ListedIn(productNamesZA) ]_vars

\* The listing sorted Z to A while the cart holds an item.
C20_Witness ==
  /\ result.op = "InventoryPage.sortProductsBy"
  /\ result.arg = sortOptions.nameZA
  /\ result.status = "ok"
  /\ app.screen = "inventory"
  /\ app.cart # <<>>
  /\ InventoryPage_getProductNames(app).value = ListedIn(productNamesZA)
  /\ InventoryPage_getProductNames(app).value # ListedIn(productNamesAZ)

\* What a test reads of a page through its page objects.
Reads(a) ==
  [screen |-> a.screen,
   names  |-> CartPage_getCartItemNames(a).value,
   badge  |-> InventoryPage_getCartItemCount(a).value,
   error  |-> LoginPage_getErrorMessage(a).value,
   form   |-> <<a.username, a.password, a.firstName, a.lastName, a.postalCode>>]

\* C18: with two tests running at the same time, each on its own page with
\* its own page objects, under every interleaving an operation of one test
\* leaves the other test's page, and everything that test reads of it
\* (screen, cart contents, form fields, error banner), as it was.
C18_SessionsIsolated ==
  [][ /\ peer'.acted => app' = app /\ Reads(app') = Reads(app)
      /\ ~peer'.acted =>
           peer'.page = peer.page /\ Reads(peer'.page) = Reads(peer.page) ]_vars

\* The second test has just ordered on its page while the first test is
\* suspended in removeAllItems with items left in its own cart.
C18_Witness ==
  /\ peer.acted
  /\ peer.page.screen = "complete"
  /\ peer.page.cart = <<>>
  /\ pc.at = "loop"
  /\ app.screen = "cart"
  /\ app.cart # <<>>

\* The prices a test reads off the inventory and converts to numbers.
ParsedPrices(a) ==
  With(InventoryPage_getProductPrices(a).value, LAMBDA prices :
    [i \in 1..Len(prices) |-> parsePriceToNumber(prices[i])])

NonDecreasing(arr) ==
  /\ \A i \in 1..Len(arr) : ~arr[i].nan
  /\ \A i \in 1..(Len(arr) - 1) : arr[i].n <= arr[i + 1].n

NonIncreasing(arr) ==
  /\ \A i \in 1..Len(arr) : ~arr[i].nan
  /\ \A i \in 1..(Len(arr) - 1) : arr[i].n >= arr[i + 1].n

\* An inventory that lists the whole catalogue, sorted by option from the
\* ordering the option before has left.
WholeInventory(before, option) ==
  [FreshPage EXCEPT !.screen = "inventory", !.loggedIn = TRUE,
     !.listing = AppSort(option, AppSort(before,
                    [i \in 1..Len(allProducts) |-> allProducts[i].name]))]

\* The prices read off the whole catalogue, two of them equal, are the
\* reference price lists and pass the sortedness helpers.
WholeCatalogPriceSorted ==
  \A before \in SortOption :
    /\ \E p \in {ParsedPrices(WholeInventory(before, sortOptions.priceLowHigh))} :
         /\ p = [i \in 1..Len(pricesLowToHigh) |-> Number(pricesLowToHigh[i])]
         /\ NonDecreasing(p) /\ isSortedAscending(p)
    /\ \E p \in {ParsedPrices(WholeInventory(before, sortOptions.priceHighLow))} :
         /\ p = [i \in 1..Len(pricesHighToLow) |-> Number(pricesHighToLow[i])]
         /\ NonIncreasing(p) /\ isSortedDescending(p)

\* C21: after sortProductsBy('lohi') returns, the prices read by
\* getProductPrices and converted by parsePriceToNumber are numbers in
\* non-decreasing order (equal neighbours allowed) and isSortedAscending
\* answers true for them; after sortProductsBy('hilo') they are in
\* non-increasing order and isSortedDescending answers true.
C21_SortByPriceIsMonotone ==
  [][ /\ WholeCatalogPriceSorted
      /\ SortReturned(sortOptions.priceLowHigh) =>
           \E p \in {ParsedPrices(app')} : NonDecreasing(p) /\ isSortedAscending(p)
      /\ SortReturned(sortOptions.priceHighLow) =>
           \E p \in {ParsedPrices(app')} : NonIncreasing(p) /\ isSortedDescending(p) ]_vars

\* The listing sorted by ascending price: the catalogue's second product
\* now stands before its dearer first one.
C21_Witness ==
  /\ result.op = "InventoryPage.sortProductsBy"
  /\ result.arg = sortOptions.priceLowHigh
  /\ result.status = "ok"
  /\ app.screen = "inventory"
  /\ Len(ParsedPrices(app)) >= 2
  /\ ParsedPrices(app)[1] = Number(allProducts[2].price)
  /\ ParsedPrices(app)[2] = Number(allProducts[1].price)
  /\ Less(ParsedPrices(app)[1], ParsedPrices(app)[2])

\* retry has returned or thrown.
RetryFinished == pc = Idle /\ result.op = "retry"

FnCalls(log) == SelectSeq(log, LAMBDA c : c.call = "fn")
Sleeps(log) == SelectSeq(log, LAMBDA c : c.call = "sleep")

\* fn was called floor(maxAttempts) times: as often as maxAttempts allows.
AllAttemptsMade ==
  /\ 2 * Len(FnCalls(result.calls)) <= result.arg
  /\ 2 * (Len(FnCalls(result.calls)) + 1) > result.arg

\* C22: retry(fn, N, delay) with N >= 1 calls fn at most N times, stops at
\* the first call that succeeds and returns that call's result; if all N
\* calls fail it fails with the error raised by the last call.
C22_RetryReturnsFirstSuccessOrLastError ==
  RetryFinished /\ result.arg >= 2 =>
    \E calls \in {FnCalls(result.calls)} :
      /\ Len(calls) >= 1
      /\ 2 * Len(calls) <= result.arg
      /\ \A i \in 1..(Len(calls) - 1) : ~calls[i].ok
      /\ \A i \in 1..Len(calls) : calls[i].item = i
      /\ result.status = "ok" =>
           calls[Len(calls)].ok /\ result.value = calls[Len(calls)].sel
      /\ result.status = "error" =>
           /\ AllAttemptsMade
           /\ ~calls[Len(calls)].ok
           /\ result.err = calls[Len(calls)].sel

\* Both attempts of retry(fn, 2) failed, the second with a bare rejection.
C22_Witness ==
  /\ RetryFinished
  /\ result.arg = 4
  /\ result.status = "error"
  /\ Len(FnCalls(result.calls)) = 2
  /\ result.calls[Len(result.calls)] = Call("fn", Undefined, 2, FALSE)
  /\ result.err = "Error: Retry failed"

\* C23: retry waits the delay once between each two consecutive attempts
\* and at no other time: a run of k attempts has k-1 waits, none before the
\* first attempt, after a successful attempt or after the last failed one.
C23_RetryWaitsOnlyBetweenAttempts ==
  RetryFinished /\ FnCalls(result.calls) # <<>> =>
    /\ Len(Sleeps(result.calls)) = Len(FnCalls(result.calls)) - 1
    /\ \A i \in 1..Len(result.calls) :
         result.calls[i].call = (IF i % 2 = 1 THEN "fn" ELSE "sleep")
    /\ \A i \in 1..Len(result.calls) :
         result.calls[i].call = "sleep" => result.calls[i].item = DefaultDelay

\* retry(fn, 1.5) has thrown after one attempt and one wait.
C23_Witness ==
  /\ RetryFinished
  /\ result.arg = 3
  /\ result.status = "error"
  /\ Len(FnCalls(result.calls)) = 1
  /\ Len(Sleeps(result.calls)) = 1
  /\ result.calls[Len(result.calls)].call = "sleep"

\* C30: retry(fn, N, delay) with N <= 0 never calls fn and never waits, and
\* fails with the generic error 'Retry failed'.
C30_RetryWithoutAttemptsFails ==
  /\ pc.at \in {"fn", "sleep"} => pc.retry.maxAttempts >= 2
  /\ RetryFinished /\ result.arg <= 0 =>
       /\ result.calls = <<>>
       /\ result.status = "error"
       /\ result.err = "Error: Retry failed"

\* retry(fn, 0) has thrown.
C30_Witness ==
  /\ RetryFinished
  /\ result.arg = 0
  /\ result.status = "error"
  /\ result.err = "Error: Retry failed"
  /\ result.calls = <<>>

\* The last statement of the full user journey that has been executed.
JourneyAt(k) ==
  result.op = "journey" /\ result.arg.test = FullUserJourney /\ result.arg.step = k

\* C24: the end-to-end scenario succeeds as one run: login as the standard
\* user, add "Sauce Labs Backpack" and "Sauce Labs Bike Light", badge reads
\* 2, checkout with {John, Doe, 12345}, verifyTotalCalculation is true,
\* finish, the completion header contains "Thank you", back home, and the
\* inventory screen is displayed again.  No statement of the run fails, and
\* the statements are executed one after the other up to the last.
C24_FullUserJourneySucceeds ==
  /\ [](result.op = "journey" /\ result.arg.test = FullUserJourney =>
          /\ result.status = "ok"
          /\ result.arg.step < JourneyLength => pc.at = "test"
          /\ JourneyAt(2) => app.loggedIn /\ app.screen = "inventory"
          /\ JourneyAt(4) => app.cart = <<Str("Sauce Labs Backpack"), Str("Sauce Labs Bike Light")>>
          /\ JourneyAt(5) => result.value = Number(2)
          /\ JourneyAt(12) =>
               /\ app.screen = "step2"
               /\ <<app.firstName, app.lastName, app.postalCode>> = <<<<>>, <<>>, <<>>>>
          /\ JourneyAt(15) => result.value = TRUE
          /\ JourneyAt(16) => app.screen = "complete"
          /\ JourneyAt(19) => Contains(result.value, Str("Thank you"))
          /\ JourneyAt(20) => app.screen = "inventory"
          /\ JourneyAt(21) => app.screen = "inventory" /\ app.loggedIn)
  /\ [][ pc.at = "test" /\ pc.test = FullUserJourney =>
           result'.arg.step = result.arg.step + 1 ]_vars

\* The journey has come back to the inventory after the order, the cart
\* empty again, with the verification of the inventory screen passed.
C24_Witness ==
  /\ JourneyAt(21)
  /\ result.status = "ok"
  /\ app.screen = "inventory"
  /\ app.loggedIn
  /\ app.cart = <<>>

\* verifyTotalCalculation has returned on the displayed overview.
TotalVerified ==
  /\ result.op = "CheckoutStepTwoPage.verifyTotalCalculation"
  /\ result.status = "ok"
  /\ app.screen = "step2"

\* The cents between the displayed total and the displayed subtotal plus
\* the displayed tax.
DisplayedDifference == AppTotal(app) - (AppSubtotal(app) + AppTax(app))

\* C25: verifyTotalCalculation returns true exactly when the absolute
\* difference between the displayed total and the displayed subtotal plus
\* the displayed tax is less than 0.01: with amounts in whole cents, a total
\* off by one cent or more yields false.
C25_TotalCheckedToTheCent ==
  TotalVerified =>
    result.value = ((IF DisplayedDifference < 0 THEN -DisplayedDifference
                     ELSE DisplayedDifference) < ToleranceCents)

\* Item total $29.99, tax $2.40 and a displayed total of $32.40, one cent
\* too much, and verifyTotalCalculation has returned true.
C25_Witness ==
  /\ TotalVerified
  /\ app.cart = <<Str("Sauce Labs Backpack")>>
  /\ AppSubtotal(app) = 2999 /\ AppTax(app) = 240 /\ AppTotal(app) = 3240
  /\ result.value = TRUE

\* The cart badge as the page displays it: its text, or nothing.
BadgeShown(a) == Matching(a, Loc(".shopping_cart_badge"))

BadgeOps == {"InventoryPage.getCartItemCount", "ProductDetailPage.getCartItemCount"}

CountsTheBadge(a, out) ==
  /\ out.status = "ok"
  /\ ~out.value.nan
  /\ out.value.n >= 0
  /\ out.value.n = 0 <=> BadgeShown(a) = <<>>
  /\ BadgeShown(a) # <<>> => <<Digits(out.value.n)>> = Trim(BadgeShown(a)[1].text)
  /\ out.app = a

\* C26: InventoryPage.getCartItemCount and ProductDetailPage.getCartItemCount
\* return 0 exactly when no cart badge is displayed and otherwise the
\* non-negative integer the badge shows; in no state of the application is
\* the result a non-number.
C26_BadgeCountIsTheBadgeOrZero ==
  /\ app.screen = "inventory" => CountsTheBadge(app, InventoryPage_getCartItemCount(app))
  /\ app.screen = "detail" => CountsTheBadge(app, ProductDetailPage_getCartItemCount(app))
  /\ result.op \in BadgeOps =>
       CountsTheBadge(app, [app |-> app, status |-> result.status, value |-> result.value])

\* The detail page object has read a badge that shows every listed product.
C26_Witness ==
  /\ result.op = "ProductDetailPage.getCartItemCount"
  /\ result.status = "ok"
  /\ result.value = Number(NumProducts)
  /\ app.screen = "detail"
  /\ BadgeShown(app) # <<>>

Clicks(calls) == SelectSeq(calls, LAMBDA c : c.call = "click")

\* C27: on the login screen closeErrorMessage returns normally, leaves the
\* banner not displayed and the page on the login screen with nothing
\* submitted: the only thing it may change is the banner, by one click on the
\* close button.  When no close button is displayed it issues no click.
C27_CloseDismissesBannerOnly ==
  [][LoginCloseErrorMessage =>
       /\ result'.status = "ok"
       /\ ~LoginPage_isErrorMessageVisible(app').value
       /\ app'.screen = "login"
       /\ app' = [app EXCEPT !.error = <<>>]
       /\ IF isElementVisible(app, ".error-button").value
            THEN Clicks(result'.calls) = << Call("click", ".error-button", 0, TRUE) >>
            ELSE Clicks(result'.calls) = <<>> /\ app' = app]_vars

\* The banner of a refused login has been dismissed: the credentials typed
\* are still in the form, the banner is gone, nobody is logged in.
C27_Witness ==
  /\ result.op = "LoginPage.closeErrorMessage"
  /\ result.status = "ok"
  /\ Clicks(result.calls) # <<>>
  /\ app.screen = "login"
  /\ app.username # <<>>
  /\ app.error = <<>>
  /\ ~app.loggedIn

DataHelpers ==
  {"getRandomProduct", "getRandomProducts", "getProductByName", "getRandomCheckoutInfo",
   "getCheckoutInfoWithMissingField", "getValidUser", "getInvalidUser"}

\* C28: after any sequence of data-helper calls and page-object operations
\* every exported fixture record and list equals its value at definition:
\* allProducts, productNamesAZ and pricesLowToHigh keep their order, the
\* reversed lists stay their reverses, no record changes.
C28_FixturesNeverChange ==
  /\ data.arrays[Exported.allProducts] = allProducts
  /\ data.arrays[Exported.productNamesAZ] = productNamesAZ
  /\ data.arrays[Exported.productNamesZA] = Reverse(productNamesAZ)
  /\ data.arrays[Exported.pricesLowToHigh] = pricesLowToHigh
  /\ data.arrays[Exported.pricesHighToLow] = Reverse(pricesLowToHigh)
  /\ data.arrays[Exported.checkoutTestData] = checkoutTestData
  /\ Len(data.arrays) = 6
  /\ data.products = products
  /\ data.validUsers = validUsers
  /\ data.invalidUsers = invalidUsers
  /\ data.validCheckoutInfo = validCheckoutInfo
  /\ data.invalidCheckoutInfo = invalidCheckoutInfo

\* getRandomProducts has returned two products in an order that is not the
\* catalogue's, after a run of the end-to-end test that reached its end.
C28_Witness ==
  /\ result.op = "getRandomProducts"
  /\ result.arg = 2
  /\ result.value = << allProducts[6], allProducts[1] >>
  /\ app.screen = "inventory"
  /\ app.loggedIn

\* C29: during removeAllItems the call removeItemByIndex(0) never raises
\* the index-out-of-range failure, whenever the store carries out the
\* removal of the previous item.
C29_RemoveAllNeverOutOfRange ==
  result.op = "CartPage.removeAllItems" => result.err # "out-of-range"

\* removeAllItems has returned from an emptied cart after the store was late
\* at least once: more Remove clicks were issued than lines were in the cart.
C29_Witness ==
  /\ result.op = "CartPage.removeAllItems"
  /\ pc = Idle
  /\ result.status = "ok"
  /\ Len(RemoveClicks(result.calls)) = 2
  /\ \E i \in 1..Len(result.calls) : result.calls[i] = Call("count", ".cart_item", 0, TRUE)
  /\ app.cart = <<>>
  /\ app.pending = {}

====
